---- MODULE Spec2Model ----
(***************************************************************************)
(* Model of pyveil's deterministic order core and of its clients:          *)
(*   utils/web3utils.py   get_clean_address_or_throw, to_wei, from_wei,    *)
(*                        Web3Client (key, account, sign_hash)             *)
(*   utils/zeroexutils.py ZxSignedOrder (fields, setters, prices, hash)    *)
(*   veil/veil_client.py  tick conversions, VeilClient (session, markets,  *)
(*                        pagination, post_order)                          *)
(*                                                                         *)
(* order and twin are ZxSignedOrder objects, client a Web3Client or        *)
(* VeilClient, http the requests sent by the last call; op, arg and ret    *)
(* are the last call, its arguments and what it returned or raised.        *)
(*                                                                         *)
(* Python values are tagged records: None, str (a sequence of one-         *)
(* character strings), int, bytes (a sequence of 0..255).  An operator     *)
(* that can raise returns Raised(e) in place of its value.                 *)
(* Keccak-256 is modelled symbolically as an injective bracketing of its   *)
(* preimage, so that two digests are equal iff their preimages are.        *)
(*                                                                         *)
(* One({e : x \in {v}}) is e with x standing for the value of v, as        *)
(* LET x == v IN e, with v computed once however often e uses x; this is   *)
(* how a local variable of the code is written here.                      *)
(***************************************************************************)
EXTENDS Integers, Sequences, FiniteSets, TLC

VARIABLES order, op, arg, ret, nops, twin, twinret, wei, client, http

vars == <<order, op, arg, ret, nops, twin, twinret, wei, client, http>>

(***************************************************************************)
(* Bounds of the model (not program constants).                            *)
(***************************************************************************)
MaxOps == 2

\* the requests after which a call of _request_paginated counts as still
\* looping
MaxPages == 5

(***************************************************************************)
(* Python values.                                                          *)
(***************************************************************************)
None == [t |-> "None"]

Str(s) == [t |-> "str", s |-> s]

IntV(n) == [t |-> "int", n |-> n]

Bytes(b) == [t |-> "bytes", b |-> b]

Raised(e) == [t |-> "raise", e |-> e]

IsRaised(x) == "t" \in DOMAIN x /\ x.t = "raise"

\* an exception raised by a method after it has brought its object to state o
RaisedIn(e, o) == [t |-> "raise", e |-> e, o |-> o]

IsStr(x) == "t" \in DOMAIN x /\ x.t = "str"

\* the element of a one-element set
One(S) == CHOOSE x \in S : TRUE

(***************************************************************************)
(* Characters and digits.                                                  *)
(***************************************************************************)
HEXDIGITS == <<"0", "1", "2", "3", "4", "5", "6", "7", "8", "9",
               "a", "b", "c", "d", "e", "f">>

UPPERHEX == <<"0", "1", "2", "3", "4", "5", "6", "7", "8", "9",
              "A", "B", "C", "D", "E", "F">>

IsLowerHexChar(c) == \E i \in 1..16 : HEXDIGITS[i] = c

IsHexChar(c) == \E i \in 1..16 : HEXDIGITS[i] = c \/ UPPERHEX[i] = c

HexVal(c) == (CHOOSE i \in 1..16 : HEXDIGITS[i] = c \/ UPPERHEX[i] = c) - 1

IsDigitChar(c) == \E i \in 1..10 : HEXDIGITS[i] = c

\* str.lower() on one character of the model's alphabet
LowerChar(c) ==
    CASE c = "A" -> "a" [] c = "B" -> "b" [] c = "C" -> "c"
      [] c = "D" -> "d" [] c = "E" -> "e" [] c = "F" -> "f"
      [] c = "G" -> "g" [] c = "X" -> "x" [] OTHER -> c

lower(s) == [i \in 1..Len(s) |-> LowerChar(s[i])]

startswith(s, p) == Len(s) >= Len(p) /\ SubSeq(s, 1, Len(p)) = p

Repeat(x, n) == [i \in 1..n |-> x]

\* bytes.rjust(width, b"\0"): pad on the left, never truncate
rjust(b, width) == IF Len(b) >= width THEN b ELSE Repeat(0, width - Len(b)) \o b

(***************************************************************************)
(* hexbytes.HexBytes                                                       *)
(***************************************************************************)
\* binascii.unhexlify of an even number of hex digits
unhexlify(s) ==
    [i \in 1..(Len(s) \div 2) |-> 16 * HexVal(s[2 * i - 1]) + HexVal(s[2 * i])]

\* hexstr_to_bytes: strip a "0x"/"0X" prefix, left-pad odd lengths with "0",
\* raise on any non-hex character
hexstr_to_bytes(s) ==
    LET body == IF startswith(s, <<"0", "x">>) \/ startswith(s, <<"0", "X">>)
                THEN SubSeq(s, 3, Len(s)) ELSE s
    IN  One({IF \A i \in 1..Len(padded) : IsHexChar(padded[i])
             THEN Bytes(unhexlify(padded))
             ELSE Raised("binascii.Error") :
             padded \in {IF Len(s) % 2 = 1 THEN <<"0">> \o body ELSE body}})

RECURSIVE int_to_big_endian(_)
int_to_big_endian(n) ==
    IF n < 256 THEN <<n>> ELSE int_to_big_endian(n \div 256) \o <<n % 256>>

\* HexBytes(value): bytes of a str (hex), bytes or non-negative int
HexBytes(value) ==
    CASE value.t = "str" -> hexstr_to_bytes(value.s)
      [] value.t = "bytes" -> value
      [] value.t = "int" -> IF value.n < 0 THEN Raised("ValueError")
                            ELSE Bytes(int_to_big_endian(value.n))
      [] OTHER -> Raised("TypeError")

(***************************************************************************)
(* Keccak-256, symbolically: the digest of b is b between two bracket      *)
(* tokens (negative numbers, which no byte is).  The digests of the two    *)
(* long EIP-712 type strings are opaque tokens of their own.               *)
(***************************************************************************)
keccak(b) == <<-1>> \o b \o <<-2>>

TokenChar(x) ==
    CASE x = -1 -> "<" [] x = -2 -> ">" [] x = -11 -> "O" [] x = -12 -> "D"

\* bytes.hex(): two lowercase hex digits per byte (a doubled mark per token)
hexlify(b) ==
    [i \in 1..(2 * Len(b)) |->
        LET x == b[(i + 1) \div 2]
        IN  IF x < 0 THEN TokenChar(x)
            ELSE IF i % 2 = 1 THEN HEXDIGITS[(x \div 16) + 1]
            ELSE HEXDIGITS[(x % 16) + 1]]

\* HexBytes.hex(): "0x"-prefixed lowercase hex
hex(b) == <<"0", "x">> \o hexlify(b)

(***************************************************************************)
(* web3utils.py                                                            *)
(***************************************************************************)
ADDRESS_HEX_LEN == 40

ADDRESS_RJUST == 10

NULL_ADDRESS == Str(<<"0", "x">> \o Repeat("0", ADDRESS_HEX_LEN))

\* RE_ADDRESS = "^(0x)?[0-9a-f]{40}$"
RE_ADDRESS_match(s) ==
    \E body \in {IF startswith(s, <<"0", "x">>) THEN SubSeq(s, 3, Len(s)) ELSE s} :
        /\ Len(body) = ADDRESS_HEX_LEN
        /\ \A i \in 1..Len(body) : IsLowerHexChar(body[i])

get_clean_address_or_throw(address) ==
    One({IF IsRaised(a1) THEN a1
         ELSE IF ~RE_ADDRESS_match(lower(a1.s)) THEN Raised("TypeError")
         ELSE IF ~startswith(a1.s, <<"0", "x">>) THEN Str(<<"0", "x">> \o a1.s)
         ELSE a1 :
         a1 \in {IF address.t # "str"
                 THEN One({IF IsRaised(hb) THEN hb
                           ELSE One({Str(hexlify(b)) : b \in {rjust(hb.b, ADDRESS_RJUST)}}) :
                           hb \in {HexBytes(address)}})
                 ELSE address}})

(***************************************************************************)
(* decimal.Decimal: sign, digits of the coefficient, number of fractional  *)
(* digits.  The value is (-1)^neg * ds / 10^scale.                         *)
(***************************************************************************)
DECIMAL_PREC == 28

DecV(neg, ds, scale) == [t |-> "dec", neg |-> neg, ds |-> ds, scale |-> scale]

RECURSIVE Digits(_)
Digits(n) == IF n < 10 THEN <<n>> ELSE Digits(n \div 10) \o <<n % 10>>

DigitChar(d) == HEXDIGITS[d + 1]

CharDigit(c) == HexVal(c)

AllZero(ds) == \A i \in 1..Len(ds) : ds[i] = 0

RECURSIVE StripLeadingZeros(_)
StripLeadingZeros(ds) ==
    IF Len(ds) > 1 /\ ds[1] = 0 THEN StripLeadingZeros(Tail(ds)) ELSE ds

PadLeft(ds, n) == IF Len(ds) >= n THEN ds ELSE Repeat(0, n - Len(ds)) \o ds

RECURSIVE IncDigits(_)
IncDigits(ds) ==
    IF ds = <<>> THEN <<1>>
    ELSE IF ds[Len(ds)] < 9
         THEN SubSeq(ds, 1, Len(ds) - 1) \o <<ds[Len(ds)] + 1>>
         ELSE IncDigits(SubSeq(ds, 1, Len(ds) - 1)) \o <<0>>

\* ROUND_HALF_EVEN of kept.disc; sticky says digits were dropped after disc
RoundHalfEven(kept, disc, sticky) ==
    LET last == IF kept = <<>> THEN 0 ELSE kept[Len(kept)]
        rest == sticky \/ ~AllZero(Tail(disc))
        up == disc # <<>> /\ (disc[1] > 5 \/ (disc[1] = 5 /\ (rest \/ last % 2 = 1)))
    IN  IF up THEN IncDigits(kept) ELSE kept

\* Decimal(str): [-]digits[.digits] with at least one digit
DecimalOfStr(s) ==
    LET neg == Len(s) > 0 /\ s[1] = "-"
        u == IF neg THEN Tail(s) ELSE s
        dots == {i \in 1..Len(u) : u[i] = "."}
        dot == IF dots = {} THEN Len(u) + 1 ELSE CHOOSE i \in dots : TRUE
    IN  One({IF /\ Cardinality(dots) <= 1
                /\ Len(ip) + Len(fp) > 0
                /\ \A i \in 1..Len(ip) : IsDigitChar(ip[i])
                /\ \A i \in 1..Len(fp) : IsDigitChar(fp[i])
             THEN DecV(neg,
                       [i \in 1..(Len(ip) + Len(fp)) |->
                          IF i <= Len(ip) THEN CharDigit(ip[i])
                          ELSE CharDigit(fp[i - Len(ip)])],
                       Len(fp))
             ELSE Raised("InvalidOperation") :
             ip \in {SubSeq(u, 1, dot - 1)}, fp \in {SubSeq(u, dot + 1, Len(u))}})

\* Decimal(value) for the value types of the model
Decimal(value) ==
    CASE value.t = "dec" -> value
      [] value.t = "int" -> DecV(value.n < 0,
                                 Digits(IF value.n < 0 THEN -value.n ELSE value.n), 0)
      [] value.t = "str" -> DecimalOfStr(value.s)
      [] OTHER -> Raised("TypeError")

DecIsZero(d) == AllZero(d.ds)

\* numeric equality of two Decimals
DecEq(x, y) ==
    LET m == IF x.scale > y.scale THEN x.scale ELSE y.scale
        xs == StripLeadingZeros(x.ds \o Repeat(0, m - x.scale))
        ys == StripLeadingZeros(y.ds \o Repeat(0, m - y.scale))
    IN  xs = ys /\ (x.neg = y.neg \/ AllZero(xs))

\* "{:.kf}".format(d): exactly k fractional digits, rounded half-even
FormatF(d, k) ==
    LET full == PadLeft(d.ds, d.scale + 1)
        cut == Len(full) - (d.scale - k)
        chars(x) == [i \in 1..Len(x) |-> DigitChar(x[i])]
    IN  One({(IF d.neg THEN <<"-">> ELSE <<>>)
             \o chars(StripLeadingZeros(SubSeq(ds, 1, Len(ds) - k)))
             \o (IF k > 0 THEN <<".">> \o chars(SubSeq(ds, Len(ds) - k + 1, Len(ds)))
                 ELSE <<>>) :
             ds \in {IF d.scale <= k THEN full \o Repeat(0, k - d.scale)
                     ELSE PadLeft(RoundHalfEven(SubSeq(full, 1, cut),
                                                SubSeq(full, cut + 1, Len(full)),
                                                FALSE),
                                  k + 1)}})

\* "{:0w.kf}".format(d): FormatF zero-filled after the sign to width w
FormatF0(d, w, k) ==
    One({IF Len(s) >= w THEN s
         ELSE (IF d.neg THEN <<"-">> ELSE <<>>)
              \o Repeat("0", w - Len(s))
              \o (IF d.neg THEN Tail(s) ELSE s) :
         s \in {FormatF(d, k)}})

\* int(str): [-]digits, no whitespace in the model's alphabet
IntOfStr(s) ==
    LET neg == Len(s) > 0 /\ s[1] = "-"
        u == IF neg THEN Tail(s) ELSE s
        RECURSIVE val(_, _)
        val(x, acc) == IF x = <<>> THEN acc
                       ELSE val(Tail(x), 10 * acc + CharDigit(x[1]))
    IN  IF Len(u) > 0 /\ \A i \in 1..Len(u) : IsDigitChar(u[i])
        THEN IntV(IF neg THEN -val(u, 0) ELSE val(u, 0))
        ELSE Raised("ValueError")

\* int(value)
int(value) ==
    CASE value.t = "int" -> value
      [] value.t = "str" -> IntOfStr(value.s)
      [] OTHER -> Raised("TypeError")

RECURSIVE LongDivision(_, _, _)
\* n fractional digits of r/b (r < b) and the remainder left after them
LongDivision(r, b, n) ==
    IF n = 0 THEN [ds |-> <<>>, r |-> r]
    ELSE LET cons(d, rec) == [ds |-> <<d>> \o rec.ds, r |-> rec.r]
         IN  cons((10 * r) \div b, LongDivision((10 * r) % b, b, n - 1))

RECURSIVE LeadingFracZeros(_, _)
LeadingFracZeros(r, b) == IF 10 * r >= b THEN 0 ELSE 1 + LeadingFracZeros(10 * r, b)

\* Decimal(a) / Decimal(b) for ints a, b, in the default context:
\* DECIMAL_PREC significant digits, ROUND_HALF_EVEN
DecimalDiv(a, b) ==
    LET abs(x) == IF x < 0 THEN -x ELSE x
        neg == (a < 0) # (b < 0)
        q == abs(a) \div abs(b)
        r == abs(a) % abs(b)
        ipd == Digits(q)
        n == IF q > 0 THEN DECIMAL_PREC - Len(ipd)
             ELSE IF r = 0 THEN 0
             ELSE DECIMAL_PREC + LeadingFracZeros(r, abs(b))
        up(kept, rem) == 2 * rem > abs(b)
                         \/ (2 * rem = abs(b) /\ kept[Len(kept)] % 2 = 1)
    IN  IF b = 0 THEN Raised(IF a = 0 THEN "InvalidOperation" ELSE "DivisionByZero")
        ELSE One({DecV(neg,
                       IF up(ipd \o ld.ds, ld.r) THEN IncDigits(ipd \o ld.ds)
                       ELSE ipd \o ld.ds,
                       n) :
                  ld \in {LongDivision(r, abs(b), n)}})

(***************************************************************************)
(* web3utils.py: to_wei / from_wei.  A Python int is kept here as its      *)
(* sign and decimal digits, so that 18 decimals do not overflow.           *)
(***************************************************************************)
ETH_BASE_UNIT_DECIMALS == 18

BigInt(neg, ds) == [t |-> "bigint", neg |-> neg, ds |-> ds]

\* int(str) of [-]digits, of any length
BigIntOfStr(s) ==
    LET neg == Len(s) > 0 /\ s[1] = "-"
        u == IF neg THEN Tail(s) ELSE s
        ds == StripLeadingZeros([i \in 1..Len(u) |-> CharDigit(u[i])])
    IN  IF Len(u) > 0 /\ \A i \in 1..Len(u) : IsDigitChar(u[i])
        THEN BigInt(neg /\ ~AllZero(ds), ds)
        ELSE Raised("ValueError")

\* s[:-n] for n >= 0 (s[:-0] is s[:0], the empty string)
SliceBeforeLast(s, n) ==
    IF n = 0 \/ n >= Len(s) THEN <<>> ELSE SubSeq(s, 1, Len(s) - n)

\* s[-n:] for n >= 0 (s[-0:] is s[0:], the whole string)
SliceLast(s, n) ==
    IF n = 0 \/ n >= Len(s) THEN s ELSE SubSeq(s, Len(s) - n + 1, Len(s))

to_wei(numlike, decimals) ==
    One({IF IsRaised(d) THEN d
         ELSE IF DecIsZero(d) THEN BigInt(FALSE, <<0>>)
         ELSE One({BigIntOfStr(SliceBeforeLast(formatted, decimals + 1)
                               \o SliceLast(formatted, decimals)) :
                   formatted \in {FormatF(d, decimals)}}) :
         d \in {Decimal(numlike)}})

\* "{:0wd}".format(n): zero-filled after the sign to width w
FormatD0(n, w) ==
    LET chars == [i \in 1..Len(n.ds) |-> DigitChar(n.ds[i])]
        sign == IF n.neg THEN <<"-">> ELSE <<>>
        len == Len(sign) + Len(chars)
    IN  sign \o (IF len >= w THEN <<>> ELSE Repeat("0", w - len)) \o chars

from_wei(intlike, decimals) ==
    IF AllZero(intlike.ds) THEN DecV(FALSE, <<0>>, 0)
    ELSE One({DecimalOfStr(SliceBeforeLast(formatted, decimals)
                           \o <<".">> \o SliceLast(formatted, decimals)) :
              formatted \in {FormatD0(intlike, decimals)}})

(***************************************************************************)
(* utils/miscutils.py (not part of the sources at hand)                    *)
(***************************************************************************)
\* try_(func, ...): the value of the call, or the default when it raises
try_(x, default) == IF IsRaised(x) THEN default ELSE x

\* assert_like_integer(value): raises unless value is a non-negative integer
assert_like_integer(value) ==
    One({IF IsRaised(d) THEN d
         ELSE IF (d.neg /\ ~DecIsZero(d))
                 \/ ~AllZero(SubSeq(d.ds, Len(d.ds) - d.scale + 1, Len(d.ds)))
         THEN Raised("AssertionError")
         ELSE None :
         d \in {Decimal(value)}})

(***************************************************************************)
(* zeroexutils.py: constants of the EIP-712 order hash                     *)
(***************************************************************************)
EIP191_HEADER == <<25, 1>>

EIP712_DOMAIN_SEPARATOR_SCHEMA_HASH == <<-12>>

EIP712_ORDER_SCHEMA_HASH == <<-11>>

\* keccak(b"0x Protocol"), keccak(b"2")
EIP712_DOMAIN_STRUCT_HEADER ==
    EIP712_DOMAIN_SEPARATOR_SCHEMA_HASH
    \o keccak(<<48, 120, 32, 80, 114, 111, 116, 111, 99, 111, 108>>)
    \o keccak(<<50>>)

WORD_BYTES == 32

(***************************************************************************)
(* ZxSignedOrder                                                           *)
(***************************************************************************)
\* lines 168-187: every member starts as None
NewOrder ==
    [hash_ |-> None, maker_address_ |-> None, taker_address_ |-> None,
     fee_recipient_address_ |-> None, sender_address_ |-> None,
     exchange_address_ |-> None, maker_asset_amount_ |-> None,
     taker_asset_amount_ |-> None, maker_fee_ |-> None, taker_fee_ |-> None,
     salt_ |-> None, expiration_time_seconds_ |-> None,
     maker_asset_data_ |-> None, taker_asset_data_ |-> None,
     signature_ |-> None, created_at_msecs_ |-> None, bid_price_ |-> None,
     ask_price_ |-> None, sort_price_ |-> None, _created_at_msecs_ |-> None]

PRICE_WIDTH == 32

PRICE_DECIMALS == 18

\* getters that convert: int(self.maker_asset_amount_), ...
maker_asset_amount(o) == int(o.maker_asset_amount_)

taker_asset_amount(o) == int(o.taker_asset_amount_)

update_bid_price(o) ==
    One({[o EXCEPT !.bid_price_ =
             One({IF IsRaised(q) THEN Str(Repeat("0", 32))
                  ELSE Str(FormatF0(q, PRICE_WIDTH, PRICE_DECIMALS)) :
                  q \in {IF IsRaised(t) THEN t ELSE IF IsRaised(m) THEN m
                         ELSE DecimalDiv(t.n, m.n)}})] :
         t \in {taker_asset_amount(o)}, m \in {maker_asset_amount(o)}})

\* update_ask_price with the zero sentinel in place of the 32 nines
update_ask_price_zero_sentinel(o) ==
    One({[o EXCEPT !.ask_price_ =
             One({IF IsRaised(q) THEN Str(Repeat("0", 32))
                  ELSE Str(FormatF0(q, PRICE_WIDTH, PRICE_DECIMALS)) :
                  q \in {IF IsRaised(m) THEN m ELSE IF IsRaised(t) THEN t
                         ELSE DecimalDiv(m.n, t.n)}})] :
         m \in {maker_asset_amount(o)}, t \in {taker_asset_amount(o)}})

update_ask_price(o) ==
    One({[o EXCEPT !.ask_price_ =
             One({IF IsRaised(q) THEN Str(Repeat("9", 32))
                  ELSE Str(FormatF0(q, PRICE_WIDTH, PRICE_DECIMALS)) :
                  q \in {IF IsRaised(m) THEN m ELSE IF IsRaised(t) THEN t
                         ELSE DecimalDiv(m.n, t.n)}})] :
         m \in {maker_asset_amount(o)}, t \in {taker_asset_amount(o)}})

\* property getters: try_(Decimal, self.bid_price_, default_=...)
bid_price(o) == try_(Decimal(o.bid_price_), DecV(FALSE, <<0>>, 0))

ask_price(o) == try_(Decimal(o.ask_price_), DecV(FALSE, Repeat(9, 32), 0))

\* the sort_price property: return Decimal(self.sort_price_)
sort_price(o) == Decimal(o.sort_price_)

\* the created_at_msecs property: return self.created_at_msecs_
created_at_msecs(o) == o.created_at_msecs_

\* the address setters
CleanOrNone(value) == IF value = None THEN None ELSE get_clean_address_or_throw(value)

maker_address_set(o, value) ==
    One({IF IsRaised(a) THEN a ELSE [o EXCEPT !.maker_address_ = a] :
         a \in {CleanOrNone(value)}})

taker_address_set(o, value) ==
    One({IF IsRaised(a) THEN a ELSE [o EXCEPT !.taker_address_ = a] :
         a \in {CleanOrNone(value)}})

fee_recipient_address_set(o, value) ==
    One({IF IsRaised(a) THEN a ELSE [o EXCEPT !.fee_recipient_address_ = a] :
         a \in {CleanOrNone(value)}})

sender_address_set(o, value) ==
    One({IF IsRaised(a) THEN a ELSE [o EXCEPT !.sender_address_ = a] :
         a \in {CleanOrNone(value)}})

exchange_address_set(o, value) ==
    One({IF IsRaised(a) THEN a ELSE [o EXCEPT !.exchange_address_ = a] :
         a \in {CleanOrNone(value)}})

\* "{:.0f}".format(Decimal(value)) after assert_like_integer(value)
IntegerString(value) ==
    One({IF IsRaised(chk) THEN chk ELSE Str(FormatF(Decimal(value), 0)) :
         chk \in {assert_like_integer(value)}})

\* the maker amount setter storing the formatted value before it validates
maker_asset_amount_set_store_first(o, value) ==
    One({IF IsRaised(d) THEN d
         ELSE One({IF IsRaised(chk)
                   THEN RaisedIn(chk.e, stored)
                   ELSE update_ask_price(update_bid_price(stored)) :
                   chk \in {assert_like_integer(value)},
                   stored \in {[o EXCEPT !.maker_asset_amount_ = Str(FormatF(d, 0))]}}) :
         d \in {Decimal(value)}})

maker_asset_amount_set(o, value) ==
    One({IF IsRaised(v) THEN v
         ELSE update_ask_price(update_bid_price([o EXCEPT !.maker_asset_amount_ = v])) :
         v \in {IntegerString(value)}})

\* the taker amount setter without its call of update_bid_price
taker_asset_amount_set_stale_bid(o, value) ==
    One({IF IsRaised(v) THEN v
         ELSE update_ask_price([o EXCEPT !.taker_asset_amount_ = v]) :
         v \in {IntegerString(value)}})

taker_asset_amount_set(o, value) ==
    One({IF IsRaised(v) THEN v
         ELSE update_ask_price(update_bid_price([o EXCEPT !.taker_asset_amount_ = v])) :
         v \in {IntegerString(value)}})

\* the maker fee setter without its assert_like_integer
maker_fee_set_unchecked(o, value) ==
    One({IF IsRaised(d) THEN d ELSE [o EXCEPT !.maker_fee_ = Str(FormatF(d, 0))] :
         d \in {Decimal(value)}})

maker_fee_set(o, value) ==
    One({IF IsRaised(v) THEN v ELSE [o EXCEPT !.maker_fee_ = v] :
         v \in {IntegerString(value)}})

taker_fee_set(o, value) ==
    One({IF IsRaised(v) THEN v ELSE [o EXCEPT !.taker_fee_ = v] :
         v \in {IntegerString(value)}})

\* the salt setter clearing the signature with the field it changes
salt_set_clearing_signature(o, value) ==
    One({IF IsRaised(v) THEN v ELSE [o EXCEPT !.salt_ = v, !.signature_ = None] :
         v \in {IntegerString(value)}})

salt_set(o, value) ==
    One({IF IsRaised(v) THEN v ELSE [o EXCEPT !.salt_ = v] :
         v \in {IntegerString(value)}})

\* int("{:.0f}".format(Decimal(value)))
expiration_time_seconds_set(o, value) ==
    One({IF IsRaised(d) THEN d
         ELSE [o EXCEPT !.expiration_time_seconds_ = IntOfStr(FormatF(d, 0))] :
         d \in {Decimal(value)}})

\* HexBytes(value).hex() if value is not None else None
HexOrNone(value) ==
    IF value = None THEN None
    ELSE One({IF IsRaised(hb) THEN hb ELSE Str(hex(hb.b)) : hb \in {HexBytes(value)}})

maker_asset_data_set(o, value) ==
    One({IF IsRaised(v) THEN v ELSE [o EXCEPT !.maker_asset_data_ = v] :
         v \in {HexOrNone(value)}})

taker_asset_data_set(o, value) ==
    One({IF IsRaised(v) THEN v ELSE [o EXCEPT !.taker_asset_data_ = v] :
         v \in {HexOrNone(value)}})

signature_set(o, value) ==
    One({IF IsRaised(v) THEN v ELSE [o EXCEPT !.signature_ = v] :
         v \in {HexOrNone(value)}})

set_bid_as_sort_price(o) == [o EXCEPT !.sort_price_ = o.bid_price_]

set_ask_as_sort_price(o) == [o EXCEPT !.sort_price_ = o.ask_price_]

ORDER_KEYS ==
    {"makerAddress", "takerAddress", "feeRecipientAddress", "senderAddress",
     "makerAssetAmount", "takerAssetAmount", "makerFee", "takerFee", "salt",
     "expirationTimeSeconds", "makerAssetData", "takerAssetData"}

\* HexBytes(order[k]).rjust(32, b"\0")
AddressWord(order_json, k) ==
    One({IF IsRaised(hb) THEN hb ELSE Bytes(rjust(hb.b, WORD_BYTES)) :
         hb \in {HexBytes(order_json[k])}})

\* int(order[k]).to_bytes(32, byteorder="big")
UintWord(order_json, k) ==
    One({IF IsRaised(n) THEN n
         ELSE IF n.n < 0 THEN Raised("OverflowError")
         ELSE Bytes(rjust(int_to_big_endian(n.n), WORD_BYTES)) :
         n \in {int(order_json[k])}})

\* keccak(HexBytes(order[k]))
DataWord(order_json, k) ==
    One({IF IsRaised(hb) THEN hb ELSE Bytes(keccak(hb.b)) :
         hb \in {HexBytes(order_json[k])}})

\* the order struct with salt and expirationTimeSeconds exchanged
eip712_order_struct_parts_swapped(order_json) ==
    <<AddressWord(order_json, "makerAddress"),
      AddressWord(order_json, "takerAddress"),
      AddressWord(order_json, "feeRecipientAddress"),
      AddressWord(order_json, "senderAddress"),
      UintWord(order_json, "makerAssetAmount"),
      UintWord(order_json, "takerAssetAmount"),
      UintWord(order_json, "makerFee"),
      UintWord(order_json, "takerFee"),
      UintWord(order_json, "salt"),
      UintWord(order_json, "expirationTimeSeconds"),
      DataWord(order_json, "makerAssetData"),
      DataWord(order_json, "takerAssetData")>>

\* what follows EIP712_ORDER_SCHEMA_HASH in the order struct, in order
eip712_order_struct_parts(order_json) ==
    <<AddressWord(order_json, "makerAddress"),
      AddressWord(order_json, "takerAddress"),
      AddressWord(order_json, "feeRecipientAddress"),
      AddressWord(order_json, "senderAddress"),
      UintWord(order_json, "makerAssetAmount"),
      UintWord(order_json, "takerAssetAmount"),
      UintWord(order_json, "makerFee"),
      UintWord(order_json, "takerFee"),
      UintWord(order_json, "expirationTimeSeconds"),
      UintWord(order_json, "salt"),
      DataWord(order_json, "makerAssetData"),
      DataWord(order_json, "takerAssetData")>>

RECURSIVE ConcatBytes(_)
ConcatBytes(parts) ==
    IF parts = <<>> THEN <<>> ELSE parts[1].b \o ConcatBytes(Tail(parts))

\* get_order_hash(order_json): the EIP-712 digest as a "0x" hex string;
\* the first conversion that raises (in evaluation order) ends the call
get_order_hash(order_json) ==
    LET failed(parts) == {i \in 1..Len(parts) : IsRaised(parts[i])}
        first(parts) == parts[CHOOSE i \in failed(parts) :
                                \A j \in failed(parts) : i <= j]
        eip712_domain_struct_hash(domain) ==
            keccak(EIP712_DOMAIN_STRUCT_HEADER \o ConcatBytes(domain))
        eip712_order_struct_hash(struct) ==
            keccak(EIP712_ORDER_SCHEMA_HASH \o ConcatBytes(struct))
    IN  IF ~("exchangeAddress" \in DOMAIN order_json)
           \/ ~(ORDER_KEYS \subseteq DOMAIN order_json)
        THEN Raised("KeyError")
        ELSE One({IF failed(domain) # {} THEN first(domain)
                  ELSE IF failed(struct) # {} THEN first(struct)
                  ELSE Str(<<"0", "x">>
                           \o hexlify(keccak(EIP191_HEADER
                                             \o eip712_domain_struct_hash(domain)
                                             \o eip712_order_struct_hash(struct)))) :
                  domain \in {<<AddressWord(order_json, "exchangeAddress")>>},
                  struct \in {eip712_order_struct_parts(order_json)}})

RECURSIVE to_json(_, _, _, _)
\* to_json(include_hash, include_signature, include_exchange_address) in
\* storage mode (for_web3=False); include_exchange_address is "None",
\* "True" or "False"
to_json(o, include_hash, include_signature, include_exchange_address) ==
    LET with_exchange == include_exchange_address \in {"None", "True"}
        h == IF o.hash_ = None
             THEN try_(get_order_hash(to_json(o, FALSE, TRUE, "None")), None)
             ELSE o.hash_
        keys == ORDER_KEYS
                \cup (IF include_hash THEN {"hash"} ELSE {})
                \cup (IF include_signature THEN {"signature"} ELSE {})
                \cup (IF with_exchange THEN {"exchangeAddress"} ELSE {})
    IN  [k \in keys |->
           CASE k = "makerAddress" -> o.maker_address_
             [] k = "takerAddress" -> o.taker_address_
             [] k = "feeRecipientAddress" -> o.fee_recipient_address_
             [] k = "senderAddress" -> o.sender_address_
             [] k = "makerAssetAmount" -> o.maker_asset_amount_
             [] k = "takerAssetAmount" -> o.taker_asset_amount_
             [] k = "makerFee" -> o.maker_fee_
             [] k = "takerFee" -> o.taker_fee_
             [] k = "salt" -> o.salt_
             [] k = "expirationTimeSeconds" -> o.expiration_time_seconds_
             [] k = "makerAssetData" -> o.maker_asset_data_
             [] k = "takerAssetData" -> o.taker_asset_data_
             [] k = "hash" -> h
             [] k = "signature" -> o.signature_
             [] k = "exchangeAddress" -> o.exchange_address_]

\* update_hash: self.hash_ = self.get_order_hash(self.to_json())
update_hash(o) ==
    One({IF IsRaised(h) THEN h ELSE [o EXCEPT !.hash_ = h] :
         h \in {get_order_hash(to_json(o, FALSE, TRUE, "None"))}})

\* the hash property: the order after the lazy update, and the value returned
hash(o) ==
    One({[o |-> o1, v |-> o1.hash_] :
         o1 \in {IF o.hash_ = None THEN try_(update_hash(o), o) ELSE o}})

\* eth_utils.to_checksum_address: the EIP-55 form of an address, whose letter
\* case is decided by a Keccak digest; Checksummed(s) stands for that form of
\* the lowercase address s
Checksummed(s) == [t |-> "checksum_str", s |-> s]

to_checksum_address(value) ==
    IF value.t # "str" THEN Raised("TypeError")
    ELSE One({IF \E i \in 1..Len(body) : ~IsHexChar(body[i]) THEN Raised("ValueError")
              ELSE IF Len(body) # ADDRESS_HEX_LEN THEN Raised("ValueError")
              ELSE Checksummed(<<"0", "x">> \o lower(body)) :
              body \in {IF startswith(value.s, <<"0", "x">>)
                           \/ startswith(value.s, <<"0", "X">>)
                        THEN SubSeq(value.s, 3, Len(value.s)) ELSE value.s}})

\* the keys of the dict literal of to_json, in the order they are evaluated
ORDER_KEY_SEQ ==
    <<"makerAddress", "takerAddress", "feeRecipientAddress", "senderAddress",
      "makerAssetAmount", "takerAssetAmount", "makerFee", "takerFee", "salt",
      "expirationTimeSeconds", "makerAssetData", "takerAssetData">>

\* the dict literal of the for_web3 branch
to_json_for_web3_fields(o) ==
    [k \in ORDER_KEYS |->
       CASE k = "makerAddress" -> to_checksum_address(o.maker_address_)
         [] k = "takerAddress" -> to_checksum_address(o.taker_address_)
         [] k = "feeRecipientAddress" -> to_checksum_address(o.fee_recipient_address_)
         [] k = "senderAddress" -> to_checksum_address(o.sender_address_)
         [] k = "makerAssetAmount" -> int(o.maker_asset_amount_)
         [] k = "takerAssetAmount" -> int(o.taker_asset_amount_)
         [] k = "makerFee" -> int(o.maker_fee_)
         [] k = "takerFee" -> int(o.taker_fee_)
         [] k = "salt" -> int(o.salt_)
         [] k = "expirationTimeSeconds" -> int(o.expiration_time_seconds_)
         [] k = "makerAssetData" -> HexBytes(o.maker_asset_data_)
         [] k = "takerAssetData" -> HexBytes(o.taker_asset_data_)]

\* the entries added after the dict literal, in the order they are added
OPTIONAL_KEY_SEQ == <<"hash", "signature", "exchangeAddress">>

\* the for_web3 branch after the read of self.hash: h is the order and the
\* value that read left
to_json_for_web3(o, h, include_hash, include_signature, include_exchange_address) ==
    One({IF \E i \in 1..Len(ORDER_KEY_SEQ) : IsRaised(fields[ORDER_KEY_SEQ[i]])
         THEN [o |-> o,
               v |-> fields[ORDER_KEY_SEQ[CHOOSE i \in 1..Len(ORDER_KEY_SEQ) :
                        /\ IsRaised(fields[ORDER_KEY_SEQ[i]])
                        /\ \A j \in 1..(i - 1) : ~IsRaised(fields[ORDER_KEY_SEQ[j]])]]]
         ELSE IF \E k \in DOMAIN more : IsRaised(more[k])
         THEN [o |-> IF include_hash THEN h.o ELSE o,
               v |-> more[OPTIONAL_KEY_SEQ[CHOOSE i \in 1..Len(OPTIONAL_KEY_SEQ) :
                        /\ OPTIONAL_KEY_SEQ[i] \in DOMAIN more
                        /\ IsRaised(more[OPTIONAL_KEY_SEQ[i]])
                        /\ \A j \in 1..(i - 1) :
                              OPTIONAL_KEY_SEQ[j] \in DOMAIN more
                                  => ~IsRaised(more[OPTIONAL_KEY_SEQ[j]])]]]
         ELSE [o |-> IF include_hash THEN h.o ELSE o,
               v |-> [k \in DOMAIN fields \cup DOMAIN more |->
                        IF k \in DOMAIN more THEN more[k] ELSE fields[k]]] :
         fields \in {to_json_for_web3_fields(o)},
         more \in {[k \in (IF include_hash THEN {"hash"} ELSE {})
                          \cup (IF include_signature THEN {"signature"} ELSE {})
                          \cup (IF include_exchange_address THEN {"exchangeAddress"} ELSE {}) |->
                      CASE k = "hash" -> HexBytes(h.v)
                        [] k = "signature" -> HexBytes(o.signature_)
                        [] k = "exchangeAddress" -> HexBytes(o.exchange_address_)]}})

\* to_json with include_exchange_address resolved to a boolean: the order
\* after the call (a read of self.hash may have cached the hash) and the dict
\* returned or the exception raised
to_json_resolved(o, include_hash, include_signature, include_exchange_address, for_web3) ==
    IF for_web3
    THEN to_json_for_web3(o, hash(o), include_hash, include_signature,
                          include_exchange_address)
    ELSE [o |-> IF include_hash THEN hash(o).o ELSE o,
          v |-> to_json(o, include_hash, include_signature,
                        IF include_exchange_address THEN "True" ELSE "False")]

\* if include_exchange_address is None: False for web3, True otherwise
ResolveIncludeExchangeAddress(include_exchange_address, for_web3) ==
    IF include_exchange_address = "None" THEN ~for_web3
    ELSE include_exchange_address = "True"

\* to_json with the defaults of include_exchange_address exchanged
to_json_call_flipped_default(o, include_hash, include_signature, include_exchange_address, for_web3) ==
    to_json_resolved(o, include_hash, include_signature,
                     ResolveIncludeExchangeAddress(include_exchange_address, ~for_web3),
                     for_web3)

to_json_call(o, include_hash, include_signature, include_exchange_address, for_web3) ==
    to_json_resolved(o, include_hash, include_signature,
                     ResolveIncludeExchangeAddress(include_exchange_address, for_web3),
                     for_web3)

(***************************************************************************)
(* ZxSignedOrder.__init__ with keyword arguments: kwargs maps every keyword *)
(* to its argument, None when the keyword is not given; now is the value   *)
(* now_epoch_msecs() would return.                                         *)
(***************************************************************************)
KWARGS ==
    {"created_at_msecs", "hash", "maker_address", "taker_address",
     "fee_recipient_address", "sender_address", "exchange_address",
     "maker_asset_amount", "taker_asset_amount", "taker_fee", "maker_fee",
     "salt", "expiration_time_seconds", "maker_asset_data",
     "taker_asset_data", "signature"}

\* truth value of a Python object
Falsy(x) ==
    \/ x = None
    \/ (x.t = "int" /\ x.n = 0)
    \/ (x.t = "str" /\ x.s = <<>>)
    \/ (x.t = "bytes" /\ x.b = <<>>)

Or(x, default) == IF Falsy(x) THEN default ELSE x

EXPIRY_SECS == 60

MSECS_PER_SEC == 1000

\* self._created_at_msecs_ / 1000. + 60 as an exact decimal
DefaultExpiry(created) ==
    DecV(FALSE, Digits(created.n + EXPIRY_SECS * MSECS_PER_SEC), 3)

\* self.<name> = value through the property setter of that name
setattr(o, name, value) ==
    CASE name = "maker_address" -> maker_address_set(o, value)
      [] name = "taker_address" -> taker_address_set(o, value)
      [] name = "fee_recipient_address" -> fee_recipient_address_set(o, value)
      [] name = "sender_address" -> sender_address_set(o, value)
      [] name = "exchange_address" -> exchange_address_set(o, value)
      [] name = "maker_asset_amount" -> maker_asset_amount_set(o, value)
      [] name = "taker_asset_amount" -> taker_asset_amount_set(o, value)
      [] name = "taker_fee" -> taker_fee_set(o, value)
      [] name = "maker_fee" -> maker_fee_set(o, value)
      [] name = "salt" -> salt_set(o, value)
      [] name = "expiration_time_seconds" -> expiration_time_seconds_set(o, value)
      [] name = "maker_asset_data" -> maker_asset_data_set(o, value)
      [] name = "taker_asset_data" -> taker_asset_data_set(o, value)
      [] name = "signature" -> signature_set(o, value)

RECURSIVE Assignments(_, _)
\* the assignments of a sequence of <<name, value>> in order, up to the
\* first that raises
Assignments(o, seq) ==
    IF IsRaised(o) \/ seq = <<>> THEN o
    ELSE Assignments(setattr(o, seq[1][1], seq[1][2]), Tail(seq))

ZxSignedOrder_init(kwargs, now) ==
    One({IF IsRaised(o) THEN o
         ELSE [o EXCEPT !.signature_ = Or(kwargs["signature"], None)] :
         o \in {Assignments(
                  [NewOrder EXCEPT
                     !._created_at_msecs_ = Or(kwargs["created_at_msecs"], IntV(now)),
                     !.hash_ = Or(kwargs["hash"], None)],
                  <<<<"maker_address", Or(kwargs["maker_address"], NULL_ADDRESS)>>,
                    <<"taker_address", Or(kwargs["taker_address"], NULL_ADDRESS)>>,
                    <<"fee_recipient_address",
                      Or(kwargs["fee_recipient_address"], NULL_ADDRESS)>>,
                    <<"sender_address", Or(kwargs["sender_address"], NULL_ADDRESS)>>,
                    <<"exchange_address",
                      Or(kwargs["exchange_address"], NULL_ADDRESS)>>,
                    <<"maker_asset_amount",
                      Or(kwargs["maker_asset_amount"], Str(<<"0">>))>>,
                    <<"taker_asset_amount",
                      Or(kwargs["taker_asset_amount"], Str(<<"0">>))>>,
                    <<"taker_fee", Or(kwargs["taker_fee"], Str(<<"0">>))>>,
                    <<"maker_fee", Or(kwargs["maker_fee"], Str(<<"0">>))>>,
                    <<"salt", Or(kwargs["salt"], Str(<<"0">>))>>,
                    <<"expiration_time_seconds",
                      Or(kwargs["expiration_time_seconds"],
                         DefaultExpiry(Or(kwargs["created_at_msecs"], IntV(now))))>>,
                    <<"maker_asset_data", Or(kwargs["maker_asset_data"], None)>>,
                    <<"taker_asset_data", Or(kwargs["taker_asset_data"], None)>>>>)}})

(***************************************************************************)
(* Inputs of the model.                                                    *)
(***************************************************************************)
Chars0x == <<"0", "x">>

ADDRESS_INPUTS ==
    {Str(Chars0x \o Repeat("a", 40)),                          \* canonical
     Str(Chars0x \o Repeat("B", 20) \o Repeat("c", 20)),       \* mixed case
     Str(<<"0", "X">> \o Repeat("a", 40)),                     \* 0X prefix
     Str(Repeat("a", 40)),                                     \* no prefix
     Bytes(Repeat(170, 20)),                                   \* 20 bytes
     Str(Chars0x \o Repeat("a", 39)),                          \* too short
     None}

AMOUNT_INPUTS == {IntV(0), Str(<<"1">>), IntV(3), IntV(-1), Str(<<"1", ".", "5">>)}

FEE_INPUTS == {Str(<<"1">>), IntV(-1), Str(<<"1", ".", "5">>)}

SALT_INPUTS == {IntV(3), Str(<<"1", ".", "5">>)}

EXPIRATION_INPUTS == {IntV(0), Str(<<"7", "0">>)}

ASSET_DATA_INPUTS == {Str(Chars0x \o <<"f", "4">>), Bytes(<<1>>)}

SIGNATURE_INPUTS == {Str(Chars0x \o <<"1", "B", "0", "3">>), None}

HASH_INPUT == Str(Chars0x \o <<"d", "e", "a", "d">>)

NOW_INPUTS == {1000, 2500}

NoKwargs == [k \in KWARGS |-> None]

With(kw, k, v) == [kw EXCEPT ![k] = v]

AssetKwargs ==
    With(With(NoKwargs, "maker_asset_data", Str(Chars0x \o <<"f", "4">>)),
         "taker_asset_data", Str(Chars0x \o <<"0", "2">>))

FullKwargs ==
    [AssetKwargs EXCEPT
       !["maker_address"] = Str(Chars0x \o Repeat("a", 40)),
       !["exchange_address"] = Str(Repeat("1", 40)),
       !["maker_asset_amount"] = IntV(300),
       !["taker_asset_amount"] = Str(<<"2">>),
       !["maker_fee"] = IntV(1),
       !["salt"] = IntV(7),
       !["expiration_time_seconds"] = IntV(70)]

\* update(): self.update_hash(); return self
update(o) == update_hash(o)

RECURSIVE AssignItems(_, _, _)
\* order.<name> = order_json[<key>] for a sequence of <<name, key>>, up to
\* the first that raises
AssignItems(o, order_json, seq) ==
    IF IsRaised(o) \/ seq = <<>> THEN o
    ELSE AssignItems(IF seq[1][2] \in DOMAIN order_json
                     THEN setattr(o, seq[1][1], order_json[seq[1][2]])
                     ELSE Raised("KeyError"),
                     order_json, Tail(seq))

\* from_json(order_json, check_validity, include_signature): valid is the
\* verdict of zero_ex.json_schemas.assert_valid on the document, now what
\* now_epoch_msecs() returns to cls().  A ValidationError is raised with
\* the new order as cls() made it.
from_json(order_json, check_validity, include_signature, valid, now) ==
    One({IF IsRaised(fresh) THEN fresh
         ELSE IF check_validity /\ ~valid THEN RaisedIn("ValidationError", fresh)
         ELSE One({IF IsRaised(assigned) THEN assigned ELSE update(assigned) :
                   assigned \in {AssignItems(fresh, order_json,
                       << <<"maker_address", "makerAddress">>,
                          <<"taker_address", "takerAddress">>,
                          <<"maker_fee", "makerFee">>,
                          <<"taker_fee", "takerFee">>,
                          <<"sender_address", "senderAddress">>,
                          <<"maker_asset_amount", "makerAssetAmount">>,
                          <<"taker_asset_amount", "takerAssetAmount">>,
                          <<"maker_asset_data", "makerAssetData">>,
                          <<"taker_asset_data", "takerAssetData">>,
                          <<"salt", "salt">>,
                          <<"exchange_address", "exchangeAddress">>,
                          <<"fee_recipient_address", "feeRecipientAddress">>,
                          <<"expiration_time_seconds", "expirationTimeSeconds">> >>
                       \o (IF include_signature
                           THEN << <<"signature", "signature">> >> ELSE <<>>))}}) :
         fresh \in {ZxSignedOrder_init(NoKwargs, now)}})

KWARGS_INPUTS ==
    {NoKwargs,
     AssetKwargs,
     With(NoKwargs, "hash", HASH_INPUT),
     With(AssetKwargs, "hash", HASH_INPUT),
     With(With(NoKwargs, "maker_asset_amount", IntV(2)), "taker_asset_amount", IntV(3)),
     With(NoKwargs, "taker_asset_amount", Str(<<"2">>)),
     With(AssetKwargs, "signature", Str(Chars0x \o <<"1", "c", "0", "3">>)),
     With(NoKwargs, "expiration_time_seconds", IntV(0)),
     With(NoKwargs, "expiration_time_seconds", IntV(70)),
     With(NoKwargs, "created_at_msecs", IntV(1500)),
     With(NoKwargs, "maker_address",
          Str(Chars0x \o Repeat("B", 20) \o Repeat("c", 20))),
     With(NoKwargs, "maker_fee", IntV(-1)),
     FullKwargs}

(***************************************************************************)
(* Operations on the order under observation.  op names the last          *)
(* operation, arg its argument, ret what it returned or raised; an         *)
(* operation that raises leaves the object with the assignments it made    *)
(* before raising.                                                         *)
(***************************************************************************)
Called(name, value) ==
    /\ nops < MaxOps
    /\ nops' = nops + 1
    /\ op' = name
    /\ arg' = value

Returned(result) ==
    /\ IF IsRaised(result)
       THEN /\ order' = IF "o" \in DOMAIN result THEN result.o ELSE order
            /\ ret' = Raised(result.e)
       ELSE order' = result /\ ret' = None
    /\ UNCHANGED <<twin, twinret, wei, client, http>>

Construct ==
    \E kw \in KWARGS_INPUTS, now \in NOW_INPUTS :
        /\ Called("__init__", kw)
        /\ Returned(ZxSignedOrder_init(kw, now))

SetMakerAddress ==
    \E v \in ADDRESS_INPUTS :
        /\ Called("maker_address", v)
        /\ Returned(maker_address_set(order, v))

SetTakerAddress ==
    \E v \in ADDRESS_INPUTS :
        /\ Called("taker_address", v)
        /\ Returned(taker_address_set(order, v))

SetFeeRecipientAddress ==
    \E v \in ADDRESS_INPUTS :
        /\ Called("fee_recipient_address", v)
        /\ Returned(fee_recipient_address_set(order, v))

SetSenderAddress ==
    \E v \in ADDRESS_INPUTS :
        /\ Called("sender_address", v)
        /\ Returned(sender_address_set(order, v))

SetExchangeAddress ==
    \E v \in ADDRESS_INPUTS :
        /\ Called("exchange_address", v)
        /\ Returned(exchange_address_set(order, v))

SetMakerAssetAmount ==
    \E v \in AMOUNT_INPUTS :
        /\ Called("maker_asset_amount", v)
        /\ Returned(maker_asset_amount_set(order, v))

SetTakerAssetAmount ==
    \E v \in AMOUNT_INPUTS :
        /\ Called("taker_asset_amount", v)
        /\ Returned(taker_asset_amount_set(order, v))

SetMakerFee ==
    \E v \in FEE_INPUTS :
        /\ Called("maker_fee", v)
        /\ Returned(maker_fee_set(order, v))

SetTakerFee ==
    \E v \in FEE_INPUTS :
        /\ Called("taker_fee", v)
        /\ Returned(taker_fee_set(order, v))

SetSalt ==
    \E v \in SALT_INPUTS :
        /\ Called("salt", v)
        /\ Returned(salt_set(order, v))

SetExpirationTimeSeconds ==
    \E v \in EXPIRATION_INPUTS :
        /\ Called("expiration_time_seconds", v)
        /\ Returned(expiration_time_seconds_set(order, v))

SetMakerAssetData ==
    \E v \in ASSET_DATA_INPUTS :
        /\ Called("maker_asset_data", v)
        /\ Returned(maker_asset_data_set(order, v))

SetTakerAssetData ==
    \E v \in ASSET_DATA_INPUTS :
        /\ Called("taker_asset_data", v)
        /\ Returned(taker_asset_data_set(order, v))

SetSignature ==
    \E v \in SIGNATURE_INPUTS :
        /\ Called("signature", v)
        /\ Returned(signature_set(order, v))

UpdateHash ==
    /\ Called("update_hash", None)
    /\ Returned(update_hash(order))

\* reading the hash property: the lazy update, then the value is returned
ReadHash ==
    /\ Called("hash", None)
    /\ \E h \in {hash(order)} : order' = h.o /\ ret' = h.v
    /\ UNCHANGED <<twin, twinret, wei, client, http>>

ReadCreatedAtMsecs ==
    /\ Called("created_at_msecs", None)
    /\ ret' = created_at_msecs(order)
    /\ UNCHANGED <<order, twin, twinret, wei, client, http>>

SetBidAsSortPrice ==
    /\ Called("set_bid_as_sort_price", None)
    /\ Returned(set_bid_as_sort_price(order))

SetAskAsSortPrice ==
    /\ Called("set_ask_as_sort_price", None)
    /\ Returned(set_ask_as_sort_price(order))

(***************************************************************************)
(* Serialisation.  ToJson records the dict returned in ret.  FromJson       *)
(* builds a second order, twin, from the storage document of order.        *)
(***************************************************************************)
INCLUDE_EXCHANGE_ADDRESS_INPUTS == {"None", "True", "False"}

ToJson ==
    \E include_hash \in BOOLEAN, include_signature \in BOOLEAN,
       include_exchange_address \in INCLUDE_EXCHANGE_ADDRESS_INPUTS,
       for_web3 \in BOOLEAN :
        /\ Called("to_json", [include_hash |-> include_hash,
                              include_signature |-> include_signature,
                              include_exchange_address |-> include_exchange_address,
                              for_web3 |-> for_web3])
        /\ \E r \in {to_json_call(order, include_hash, include_signature,
                                  include_exchange_address, for_web3)} :
              /\ order' = r.o
              /\ ret' = r.v
        /\ UNCHANGED <<twin, twinret, wei, client, http>>

\* ZxSignedOrder.from_json(order.to_json(include_exchange_address=..), ..)
FromJson ==
    \E include_exchange_address \in {"None", "False"},
       check_validity \in BOOLEAN, include_signature \in BOOLEAN,
       valid \in BOOLEAN, now \in NOW_INPUTS :
        \E order_json \in {to_json(order, FALSE, TRUE, include_exchange_address)} :
            /\ Called("from_json", [order_json |-> order_json,
                                    check_validity |-> check_validity,
                                    include_signature |-> include_signature])
            /\ \E made \in {from_json(order_json, check_validity,
                                       include_signature, valid, now)} :
                  IF IsRaised(made)
                  THEN /\ twin' = IF "o" \in DOMAIN made THEN made.o ELSE twin
                       /\ twinret' = Raised(made.e)
                  ELSE twin' = made /\ twinret' = None
            /\ ret' = None
            /\ UNCHANGED <<order, wei, client, http>>

(***************************************************************************)
(* Two orders that are given the same addresses in different letter case:  *)
(* twin receives the lowercase form of whatever order receives.            *)
(***************************************************************************)
RECASE_INPUTS ==
    {Str(Chars0x \o Repeat("a", 40)),
     Str(Chars0x \o Repeat("A", 40)),
     Str(<<"0", "X">> \o Repeat("a", 40)),
     Str(Chars0x \o Repeat("A", 20) \o Repeat("a", 20))}

Lowercased(a) == Str(lower(a.s))

ReturnedBoth(result, twinresult) ==
    /\ order' = IF IsRaised(result) THEN order ELSE result
    /\ twin' = IF IsRaised(twinresult) THEN twin ELSE twinresult
    /\ ret' = IF IsRaised(result) THEN result ELSE None
    /\ twinret' = IF IsRaised(twinresult) THEN twinresult ELSE None
    /\ UNCHANGED <<wei, client, http>>

RecaseMakerAddress ==
    \E a \in RECASE_INPUTS :
        /\ Called("maker_address", a)
        /\ ReturnedBoth(maker_address_set(order, a),
                        maker_address_set(twin, Lowercased(a)))

RecaseTakerAddress ==
    \E a \in RECASE_INPUTS :
        /\ Called("taker_address", a)
        /\ ReturnedBoth(taker_address_set(order, a),
                        taker_address_set(twin, Lowercased(a)))

RecaseFeeRecipientAddress ==
    \E a \in RECASE_INPUTS :
        /\ Called("fee_recipient_address", a)
        /\ ReturnedBoth(fee_recipient_address_set(order, a),
                        fee_recipient_address_set(twin, Lowercased(a)))

RecaseSenderAddress ==
    \E a \in RECASE_INPUTS :
        /\ Called("sender_address", a)
        /\ ReturnedBoth(sender_address_set(order, a),
                        sender_address_set(twin, Lowercased(a)))

RecaseExchangeAddress ==
    \E a \in RECASE_INPUTS :
        /\ Called("exchange_address", a)
        /\ ReturnedBoth(exchange_address_set(order, a),
                        exchange_address_set(twin, Lowercased(a)))

RecaseReadHash ==
    /\ Called("hash", None)
    /\ \E h \in {hash(order)}, th \in {hash(twin)} :
          /\ order' = h.o
          /\ twin' = th.o
          /\ ret' = h.v
          /\ twinret' = th.v
    /\ UNCHANGED <<wei, client, http>>

(***************************************************************************)
(* Calls of to_wei and from_wei.  wei records the last call, its           *)
(* arguments and result, and in x the amount a round trip started from.    *)
(***************************************************************************)
WeiIdle == [call |-> "none", arg |-> None, decimals |-> 0, result |-> None, x |-> None]

WEI_DECIMALS == 0..ETH_BASE_UNIT_DECIMALS

WEI_INT_PARTS == {<<"0">>, <<"5">>, <<"1", "2">>}

\* k fractional digits: 7, 4, 1, 8, 5, ... or all zeros
WeiFraction(k, zeros) ==
    [i \in 1..k |-> IF zeros THEN "0" ELSE DigitChar((7 * i) % 10)]

WeiAmount(ip, k, zeros) ==
    Str(ip \o (IF k = 0 THEN <<>> ELSE <<".">> \o WeiFraction(k, zeros)))

\* decimal amounts with at most d fractional digits, for each d
WEI_AMOUNT_INPUTS ==
    {[call |-> "none", arg |-> WeiAmount(ip, k, zeros), decimals |-> d,
      result |-> None, x |-> None] :
        ip \in WEI_INT_PARTS, zeros \in BOOLEAN,
        d \in WEI_DECIMALS, k \in 0..ETH_BASE_UNIT_DECIMALS} 

WEI_INTS == {BigInt(FALSE, <<0>>), BigInt(FALSE, <<5>>), BigInt(FALSE, <<1, 2>>),
             BigInt(FALSE, <<1, 0, 0>>), BigInt(FALSE, <<1, 2, 3, 4, 5, 6, 7, 8, 9>>)}

WEI_INT_INPUTS ==
    {[call |-> "none", arg |-> n, decimals |-> d, result |-> None, x |-> None] :
        n \in WEI_INTS, d \in WEI_DECIMALS}

FractionDigits(x) == IF \E i \in 1..Len(x.s) : x.s[i] = "."
                     THEN Len(x.s) - (CHOOSE i \in 1..Len(x.s) : x.s[i] = ".")
                     ELSE 0

CallToWei ==
    /\ wei.call = "none"
    /\ wei.arg.t = "str"
    /\ wei' = [wei EXCEPT !.call = "to_wei",
                          !.result = to_wei(wei.arg, wei.decimals),
                          !.x = wei.arg]
    /\ UNCHANGED <<order, op, arg, ret, nops, twin, twinret, client, http>>

\* from_wei applied to what to_wei has just returned
CallFromWeiOfResult ==
    /\ wei.call = "to_wei"
    /\ ~IsRaised(wei.result)
    /\ wei' = [wei EXCEPT !.call = "from_wei",
                          !.arg = wei.result,
                          !.result = from_wei(wei.result, wei.decimals)]
    /\ UNCHANGED <<order, op, arg, ret, nops, twin, twinret, client, http>>

CallFromWei ==
    /\ wei.call = "none"
    /\ wei.arg.t = "bigint"
    /\ wei' = [wei EXCEPT !.call = "from_wei",
                          !.result = from_wei(wei.arg, wei.decimals)]
    /\ UNCHANGED <<order, op, arg, ret, nops, twin, twinret, client, http>>

(***************************************************************************)
(* ZxWeb3Client.get_zx_signature_from_ec_signature.  An int too large for  *)
(* the integers of the model is given by the hex digits hex() prints for   *)
(* it.                                                                     *)
(***************************************************************************)
HexInt(h) == [t |-> "hexint", h |-> h]

RECURSIVE HexDigitsOfInt(_)
HexDigitsOfInt(n) ==
    IF n < 16 THEN <<HEXDIGITS[n + 1]>>
    ELSE HexDigitsOfInt(n \div 16) \o <<HEXDIGITS[(n % 16) + 1]>>

\* the builtin hex(): "0x1b" for 27, "0x0" for 0, "-0x1b" for -27
hex_builtin(v) ==
    CASE v.t = "int" -> IF v.n < 0
                        THEN Str(<<"-", "0", "x">> \o HexDigitsOfInt(-v.n))
                        ELSE Str(<<"0", "x">> \o HexDigitsOfInt(v.n))
      [] v.t = "hexint" -> Str(<<"0", "x">> \o v.h)
      [] OTHER -> Raised("TypeError")

SIG_WORD_BYTES == 32

\* HexBytes(x).rjust(32, b"\0").hex(): rjust returns plain bytes, whose
\* hex() has no "0x" prefix
SigWordHex(x) ==
    One({IF IsRaised(hb) THEN hb ELSE Str(hexlify(rjust(hb.b, SIG_WORD_BYTES))) :
         hb \in {IF x.t = "hexint" THEN hexstr_to_bytes(hex_builtin(x).s)
                 ELSE HexBytes(x)}})

\* the mutant: the words keep the "0x" prefix of HexBytes.hex()
get_zx_signature_from_ec_signature_prefixed(ec_signature) ==
    One({IF IsRaised(v) THEN v
         ELSE IF IsRaised(r) THEN r
         ELSE IF IsRaised(s) THEN s
         ELSE Str(v.s \o <<"0", "x">> \o r.s \o <<"0", "x">> \o s.s \o <<"0", "3">>) :
         v \in {hex_builtin(ec_signature["v"])},
         r \in {SigWordHex(ec_signature["r"])},
         s \in {SigWordHex(ec_signature["s"])}})

\* v = hex(ec_signature["v"]); r, s = HexBytes(..).rjust(32, b"\0").hex();
\* return v + r + s + "03"
get_zx_signature_from_ec_signature(ec_signature) ==
    One({IF IsRaised(v) THEN v
         ELSE IF IsRaised(r) THEN r
         ELSE IF IsRaised(s) THEN s
         ELSE Str(v.s \o r.s \o s.s \o <<"0", "3">>) :
         v \in {hex_builtin(ec_signature["v"])},
         r \in {SigWordHex(ec_signature["r"])},
         s \in {SigWordHex(ec_signature["s"])}})

SIG_V_INPUTS == {IntV(0), IntV(27), IntV(28), IntV(255)}

SIG_R_INPUTS ==
    {IntV(0), IntV(1), IntV(256), IntV(2147483647),
     HexInt(Repeat("f", 64)),
     HexInt(<<"a", "b", "c">> \o Repeat("1", 60))}

SIG_S_INPUTS ==
    {IntV(1), IntV(4660),
     HexInt(<<"d">> \o Repeat("e", 32))}

GetZxSignatureFromEcSignature ==
    \E r \in SIG_R_INPUTS, s \in SIG_S_INPUTS, v \in SIG_V_INPUTS :
        /\ Called("get_zx_signature_from_ec_signature", [r |-> r, s |-> s, v |-> v])
        /\ ret' = get_zx_signature_from_ec_signature([r |-> r, s |-> s, v |-> v])
        /\ UNCHANGED <<order, twin, twinret, wei, client, http>>

(***************************************************************************)
(* veil_client.py: the conversions between Veil ticks and ether.  Natural  *)
(* numbers of any size are sequences of decimal digits, most significant   *)
(* first.                                                                  *)
(***************************************************************************)
RECURSIVE DivDigitsFrom(_, _, _, _)
\* long division of the digits ds, led by the remainder r, by n > 0, after
\* the quotient digits q: one quotient digit for each digit of ds, and the
\* remainder
DivDigitsFrom(ds, n, r, q) ==
    IF r < 0 \/ Len(q) < 0 THEN [q |-> q, r |-> r]
    ELSE IF ds = <<>> THEN [q |-> q, r |-> r]
    ELSE DivDigitsFrom(Tail(ds), n, (10 * r + ds[1]) % n,
                       Append(q, (10 * r + ds[1]) \div n))

DivDigits(ds, n, r) == DivDigitsFrom(ds, n, r, <<>>)

RECURSIVE MulDigitsTo(_, _, _, _)
\* the digits of ds * n + carry, before the digits p
MulDigitsTo(ds, n, carry, p) ==
    IF carry < 0 \/ Len(p) < 0 THEN p
    ELSE IF ds = <<>> THEN (IF carry = 0 THEN p ELSE Digits(carry) \o p)
    ELSE MulDigitsTo(SubSeq(ds, 1, Len(ds) - 1), n, (ds[Len(ds)] * n + carry) \div 10,
                     <<(ds[Len(ds)] * n + carry) % 10>> \o p)

MulDigits(ds, n, carry) == MulDigitsTo(ds, n, carry, <<>>)

\* a >= b for digits without leading zeros
GeDigits(a, b) ==
    \/ Len(a) > Len(b)
    \/ /\ Len(a) = Len(b)
       /\ \/ a = b
          \/ \E i \in 1..Len(a) : a[i] > b[i] /\ \A j \in 1..(i - 1) : a[j] = b[j]

\* the rounding of the decimal context: a coefficient of more than
\* DECIMAL_PREC digits is cut to DECIMAL_PREC, ROUND_HALF_EVEN; sticky says
\* that the exact value has non-zero digits after those of ds
ContextRound(neg, ds, scale, sticky) ==
    One({IF Len(c) <= DECIMAL_PREC THEN DecV(neg, c, scale)
         ELSE One({IF scale >= Len(c) - DECIMAL_PREC
                   THEN DecV(neg, r, scale - (Len(c) - DECIMAL_PREC))
                   ELSE DecV(neg, r \o Repeat(0, (Len(c) - DECIMAL_PREC) - scale), 0) :
                   r \in {RoundHalfEven(SubSeq(c, 1, DECIMAL_PREC),
                                        SubSeq(c, DECIMAL_PREC + 1, Len(c)),
                                        sticky)}}) :
         c \in {StripLeadingZeros(ds)}})

\* a Python float with an integer value
FloatV(n) == [t |-> "float", n |-> n]

\* Decimal * x: exact product, then the context rounding; a float operand
\* is not supported by Decimal
DecimalMul(d, x) ==
    CASE x.t = "int" -> ContextRound(d.neg # (x.n < 0),
                                     MulDigits(d.ds, IF x.n < 0 THEN -x.n ELSE x.n, 0),
                                     d.scale, FALSE)
      [] x.t = "pow10" -> ContextRound(d.neg, d.ds \o Repeat(0, x.k), d.scale, FALSE)
      [] OTHER -> Raised("TypeError")

\* Decimal / x: the quotient to DECIMAL_PREC significant digits
DecimalTrueDiv(d, x) ==
    CASE x.t = "int" ->
           IF x.n = 0
           THEN Raised(IF DecIsZero(d) THEN "InvalidOperation" ELSE "DivisionByZero")
           ELSE One({ContextRound(d.neg # (x.n < 0), qr.q,
                                  d.scale + DECIMAL_PREC + 6, qr.r # 0) :
                     qr \in {DivDigits(d.ds \o Repeat(0, DECIMAL_PREC + 6),
                                       IF x.n < 0 THEN -x.n ELSE x.n, 0)}})
      [] x.t = "pow10" -> ContextRound(d.neg, d.ds, d.scale + x.k, FALSE)
      [] OTHER -> Raised("TypeError")

\* round(d) of a Decimal: the nearest int, ties to even
DecimalRound(d) == BigIntOfStr(FormatF(d, 0))

\* 2 ** 53: every int below it is a float
TWO_53 == <<9, 0, 0, 7, 1, 9, 9, 2, 5, 4, 7, 4, 0, 9, 9, 2>>

RECURSIVE Doubled(_, _)
\* q * 2 ** e
Doubled(q, e) ==
    IF e = 0 \/ Len(q) = 0 THEN q
    ELSE IF e >= 10 THEN Doubled(MulDigits(q, 2 ^ 10, 0), e - 10)
    ELSE Doubled(MulDigits(q, 2, 0), e - 1)

RECURSIVE FloatOfDigitsFrom(_, _, _, _)
\* float(n) for a natural n, as the digits of its value: n is halved down
\* to 53 bits (q after e halvings), rounded half-even on the bits dropped
\* (rnd the last of them, sticky whether one before it was 1), and doubled
\* back e times; a q of 20 digits or more is above 2 ** 63 and is halved
\* ten times at once
FloatOfDigitsFrom(q, rnd, sticky, e) ==
    IF Len(q) = 0 \/ e < 0 \/ {rnd, sticky} = {} THEN q
    ELSE IF Len(q) >= 20
    THEN FloatOfDigitsFrom(StripLeadingZeros(DivDigits(q, 2 ^ 10, 0).q),
                           DivDigits(q, 2 ^ 10, 0).r >= 2 ^ 9,
                           sticky \/ rnd \/ DivDigits(q, 2 ^ 10, 0).r % 2 ^ 9 # 0,
                           e + 10)
    ELSE IF GeDigits(q, TWO_53)
    THEN FloatOfDigitsFrom(StripLeadingZeros(DivDigits(q, 2, 0).q),
                           q[Len(q)] % 2 = 1, sticky \/ rnd, e + 1)
    ELSE Doubled(IF rnd /\ (sticky \/ q[Len(q)] % 2 = 1) THEN IncDigits(q) ELSE q, e)

FloatOfDigits(q, rnd, sticky) == FloatOfDigitsFrom(q, rnd, sticky, 0)

\* "{:.0f}".format(n) for an int n: the format converts n to a float
FormatIntF0(n) ==
    (IF n.neg THEN <<"-">> ELSE <<>>)
    \o One({[i \in 1..Len(f) |-> DigitChar(f[i])] :
            f \in {FloatOfDigits(n.ds, FALSE, FALSE)}})

\* TEN_18 = 10 ** 18
TEN_18_EXP == 18

TEN_18 == [t |-> "pow10", k |-> TEN_18_EXP]

BINARY_NUM_TICKS == 10000

\* if num_ticks is None: num_ticks = 10000.
NumTicksOrDefault(num_ticks) ==
    IF num_ticks = None THEN FloatV(BINARY_NUM_TICKS) ELSE num_ticks

\* return Decimal(veil_price) / num_ticks
veil_price_to_eth(veil_price, num_ticks) ==
    One({IF IsRaised(d) THEN d ELSE DecimalTrueDiv(d, NumTicksOrDefault(num_ticks)) :
         d \in {Decimal(veil_price)}})

\* return "{:.0f}".format(round(Decimal(eth_price) * num_ticks))
eth_to_veil_price(eth_price, num_ticks) ==
    One({IF IsRaised(d) THEN d
         ELSE One({IF IsRaised(x) THEN x ELSE Str(FormatIntF0(DecimalRound(x))) :
                   x \in {DecimalMul(d, NumTicksOrDefault(num_ticks))}}) :
         d \in {Decimal(eth_price)}})

\* return Decimal(veil_shares) / TEN_18 * num_ticks
veil_shares_to_amount(veil_shares, num_ticks) ==
    One({IF IsRaised(d) THEN d
         ELSE DecimalMul(DecimalTrueDiv(d, TEN_18), NumTicksOrDefault(num_ticks)) :
         d \in {Decimal(veil_shares)}})

\* return "{:.0f}".format(round(Decimal(amount) * TEN_18 / num_ticks))
amount_to_veil_shares(amount, num_ticks) ==
    One({IF IsRaised(d) THEN d
         ELSE One({IF IsRaised(x) THEN x ELSE Str(FormatIntF0(DecimalRound(x))) :
                   x \in {DecimalTrueDiv(DecimalMul(d, TEN_18),
                                         NumTicksOrDefault(num_ticks))}}) :
         d \in {Decimal(amount)}})

TICK_VALUE_INPUTS ==
    {Str(<<"1">>), Str(<<"2", ".", "5">>), Str(<<"0", ".", "5">>),
     Str(<<"5", "0", "0", "0">>), Str(<<"1">> \o Repeat("0", 14)),
     Str(<<"0", ".", "5">> \o Repeat("0", 27) \o <<"1">>), Str(<<"x">>)}

NUM_TICKS_INPUTS ==
    {None, IntV(BINARY_NUM_TICKS), IntV(1), IntV(2), IntV(3), IntV(7)}

VeilPriceToEth ==
    \E v \in TICK_VALUE_INPUTS, n \in NUM_TICKS_INPUTS :
        /\ Called("veil_price_to_eth", [value |-> v, num_ticks |-> n])
        /\ ret' = veil_price_to_eth(v, n)
        /\ UNCHANGED <<order, twin, twinret, wei, client, http>>

EthToVeilPrice ==
    \E v \in TICK_VALUE_INPUTS, n \in NUM_TICKS_INPUTS :
        /\ Called("eth_to_veil_price", [value |-> v, num_ticks |-> n])
        /\ ret' = eth_to_veil_price(v, n)
        /\ UNCHANGED <<order, twin, twinret, wei, client, http>>

VeilSharesToAmount ==
    \E v \in TICK_VALUE_INPUTS, n \in NUM_TICKS_INPUTS :
        /\ Called("veil_shares_to_amount", [value |-> v, num_ticks |-> n])
        /\ ret' = veil_shares_to_amount(v, n)
        /\ UNCHANGED <<order, twin, twinret, wei, client, http>>

AmountToVeilShares ==
    \E v \in TICK_VALUE_INPUTS, n \in NUM_TICKS_INPUTS :
        /\ Called("amount_to_veil_shares", [value |-> v, num_ticks |-> n])
        /\ ret' = amount_to_veil_shares(v, n)
        /\ UNCHANGED <<order, twin, twinret, wei, client, http>>

(***************************************************************************)
(* web3utils.py: Web3Client, the fields that hold the key and the account. *)
(* The client is built with a web3_rpc_url, so web3_eth is there.  A       *)
(* method gives [o |-> the client after it, r |-> what it returns].        *)
(***************************************************************************)
\* bool(x) of None, bytes, str or an object
Truthy(x) ==
    CASE x.t = "None" -> FALSE
      [] x.t = "bytes" -> x.b # <<>>
      [] x.t = "str" -> x.s # <<>>
      [] OTHER -> TRUE

\* web3_eth.account.privateKeyToAccount(key): the account of the key; its
\* address is a digest of the key, symbolically
privateKeyToAccount(key) ==
    [t |-> "account", privateKey |-> key, address |-> Str(hex(keccak(key.b)))]

\* Web3Client.account
account(c) ==
    IF ~Truthy(c._account) /\ Truthy(c._private_key)
    THEN One({[o |-> [c EXCEPT !._account = a,
                               !._account_address = Lowercased(a.address)],
               r |-> a] :
              a \in {privateKeyToAccount(c._private_key)}})
    ELSE [o |-> c, r |-> c._account]

\* Web3Client.account_address
account_address(c) ==
    IF ~Truthy(c._account_address)
    THEN One({IF Truthy(g.r)
              THEN [o |-> [g.o EXCEPT !._account_address = Lowercased(g.r.address)],
                    r |-> Lowercased(g.r.address)]
              ELSE [o |-> g.o, r |-> g.o._account_address] :
              g \in {account(c)}})
    ELSE [o |-> c, r |-> c._account_address]

\* Web3Client.account_address = address
account_address_set(c, address) ==
    IF address.t # "str" THEN Raised("AttributeError")
    ELSE [o |-> [c EXCEPT !._account_address = Lowercased(address)], r |-> None]

\* Web3Client.private_key
private_key(c) ==
    [o |-> c,
     r |-> IF Truthy(c._private_key) THEN Str(hex(c._private_key.b)) ELSE None]

\* Web3Client.private_key = value
private_key_set(c, value) ==
    One({IF IsRaised(k) THEN k
         ELSE One({[o |-> [g.o EXCEPT !._account_address = g.r], r |-> None] :
                   g \in {account_address([c EXCEPT !._private_key = k])}}) :
         k \in {HexBytes(value)}})

\* Web3Client.__init__(network_id, web3_rpc_url, private_key)
Web3Client_init(key) ==
    One({IF Truthy(key) THEN private_key_set(c, key).o ELSE c :
         c \in {[t |-> "Web3Client", _private_key |-> None, _account |-> None,
                 _account_address |-> None]}})

\* b"\x19Ethereum Signed Message:\n"
SIGNED_MESSAGE_PREFIX ==
    <<25, 69, 116, 104, 101, 114, 101, 117, 109, 32, 83, 105, 103, 110, 101, 100,
      32, 77, 101, 115, 115, 97, 103, 101, 58, 10>>

\* defunct_hash_message(primitive): the digest of the prefix, the length of
\* the message in decimal and the message
defunct_hash_message(b) ==
    Bytes(keccak(SIGNED_MESSAGE_PREFIX
                 \o [i \in 1..Len(Digits(Len(b.b))) |-> 48 + Digits(Len(b.b))[i]]
                 \o b.b))

\* Web3Client.sign_hash(hash_hex): the signature names the key that made it
sign_hash(c, hash_hex) ==
    IF ~Truthy(c._private_key) THEN Raised("Exception")
    ELSE One({IF IsRaised(h) THEN h
              ELSE [o |-> c,
                    r |-> [t |-> "ec_signature",
                           messageHash |-> defunct_hash_message(h),
                           private_key |-> c._private_key]] :
              h \in {HexBytes(hash_hex)}})

PRIVATE_KEY_INPUTS ==
    {Str(<<"0", "x", "0", "1">>), Str(<<"0", "x", "0", "2">>), Bytes(<<3>>),
     Str(<<"0", "x", "z", "z">>)}

ACCOUNT_ADDRESS_INPUTS ==
    {Str(Chars0x \o Repeat("A", ADDRESS_HEX_LEN)),
     Str(Chars0x \o Repeat("b", ADDRESS_HEX_LEN))}

SIGN_HASH_INPUTS == {Str(<<"0", "x", "a", "b">>), Str(<<"0", "x", "z", "z">>)}

ClientReturned(result) ==
    /\ client' = IF IsRaised(result) THEN client ELSE result.o
    /\ ret' = IF IsRaised(result) THEN result ELSE result.r
    /\ UNCHANGED <<order, twin, twinret, wei, http>>

SetPrivateKey ==
    \E value \in PRIVATE_KEY_INPUTS :
        /\ Called("private_key.setter", value)
        /\ ClientReturned(private_key_set(client, value))

ReadPrivateKey ==
    /\ Called("private_key", None)
    /\ ClientReturned(private_key(client))

ReadAccount ==
    /\ Called("account", None)
    /\ ClientReturned(account(client))

ReadAccountAddress ==
    /\ Called("account_address", None)
    /\ ClientReturned(account_address(client))

SetAccountAddress ==
    \E address \in ACCOUNT_ADDRESS_INPUTS :
        /\ Called("account_address.setter", address)
        /\ ClientReturned(account_address_set(client, address))

SignHash ==
    \E hash_hex \in SIGN_HASH_INPUTS :
        /\ Called("sign_hash", hash_hex)
        /\ ClientReturned(sign_hash(client, hash_hex))

(***************************************************************************)
(* veil_client.py: VeilClient and the Veil API.  The server is an input:   *)
(* the records it holds, the total it reports, the page from which it      *)
(* answers nothing, and whether it serves its records again on every page. *)
(***************************************************************************)
DEFAULT_PER_PAGE == 20

Min(a, b) == IF a < b THEN a ELSE b

\* the answer of the server to GET url?page=page&per_page=per_page, as
\* _request returns it: None for an empty answer
ServerPage(server, page, per_page) ==
    IF page >= server.absent_from THEN None
    ELSE [data |->
            [results |-> IF server.endless THEN server.records
                         ELSE SubSeq(server.records, page * per_page + 1,
                                     Min((page + 1) * per_page, Len(server.records))),
             total |-> server.total]]

\* a Python list
ListV(items) == [t |-> "list", items |-> items]

\* what _request_paginated returns, and the pages it has requested
Paginated(res, requests) == [t |-> "list", r |-> ListV(res), requests |-> requests]

\* a call still in its loop after MaxPages requests
StillLooping(requests) == [t |-> "looping", requests |-> requests]

RECURSIVE RequestPages(_, _, _, _, _, _, _)
\* the loop of _request_paginated: requests holds the params of the calls
\* of _request so far
RequestPages(server, page, per_page, raw_json, next_page, res, requests) ==
    IF Len(requests) >= MaxPages THEN StillLooping(requests)
    ELSE One({
        IF this_res = None THEN Paginated(res, sent)
        ELSE IF this_res.data.results = <<>> THEN Paginated(res, sent)
        ELSE IF raw_json
        THEN RequestPages(server, page, per_page, raw_json, next_page + 1,
                          Append(res, this_res.data), sent)
        ELSE IF IsRaised(int(this_res.data.total))
        THEN [t |-> "raise", e |-> int(this_res.data.total).e, requests |-> sent]
        ELSE IF page # None
                \/ Len(res \o this_res.data.results) = int(this_res.data.total).n
        THEN Paginated(res \o this_res.data.results, sent)
        ELSE RequestPages(server, page, per_page, raw_json, next_page + 1,
                          res \o this_res.data.results, sent) :
        this_res \in {ServerPage(server, next_page,
                                 IF per_page # None THEN per_page.n
                                 ELSE DEFAULT_PER_PAGE)},
        sent \in {Append(requests,
                         [page |-> next_page,
                          per_page |-> IF per_page # None THEN per_page.n
                                       ELSE DEFAULT_PER_PAGE])}})

\* VeilClient._request_paginated, starting at the second page
request_paginated_from_second(server, page, per_page, raw_json) ==
    RequestPages(server, page, per_page, raw_json,
                 IF page # None /\ page.n > -1 THEN page.n ELSE 1,
                 <<>>, <<>>)

\* VeilClient._request_paginated(method, url, params, page, per_page, raw_json)
request_paginated(server, page, per_page, raw_json) ==
    RequestPages(server, page, per_page, raw_json,
                 IF page # None /\ page.n > -1 THEN page.n ELSE 0,
                 <<>>, <<>>)

\* a market of the Veil API, by its slug
MarketJson(slug) == [slug |-> slug]

\* Market(**m)
Market(m) == [t |-> "Market", slug |-> m.slug]

MARKET_STATUS_VALUES == {<<"o", "p", "e", "n">>, <<"r", "e", "s", "o", "l", "v", "e", "d">>}

\* MarketStatus(value)
MarketStatus(value) ==
    IF value.t = "MarketStatus" THEN value
    ELSE IF value.t = "str" /\ value.s \in MARKET_STATUS_VALUES
    THEN [t |-> "MarketStatus", value |-> value.s]
    ELSE Raised("ValueError")

\* VeilClient.get_markets(channel, status, page, per_page, force_refresh,
\* raw_json); _markets is the dict of the cache, a function of its keys
get_markets(c, server, channel, status, page, per_page, force_refresh, raw_json) ==
    IF /\ ~raw_json
       /\ ~force_refresh
       /\ <<channel, status, page, per_page>> \in DOMAIN c._markets
    THEN [o |-> c, r |-> c._markets[<<channel, status, page, per_page>>],
          requests |-> <<>>]
    ELSE One({
        IF IsRaised(member) THEN [t |-> "raise", e |-> member.e, requests |-> <<>>]
        ELSE One({
            IF res.t # "list" THEN res
            ELSE IF raw_json
            THEN [o |-> c, r |-> res.r, requests |-> res.requests]
            ELSE One({[o |-> [c EXCEPT !._markets =
                                 [k \in DOMAIN c._markets
                                        \cup {<<channel, member, page, per_page>>} |->
                                    IF k = <<channel, member, page, per_page>>
                                    THEN markets ELSE c._markets[k]]],
                       r |-> markets,
                       requests |-> res.requests] :
                      markets \in {ListV([i \in 1..Len(res.r.items) |->
                                              Market(res.r.items[i])])}}) :
            res \in {request_paginated(server, page, per_page, raw_json)}}) :
        member \in {IF Truthy(status) THEN MarketStatus(status) ELSE status}})

SESSION_MARGIN == 30

\* str.encode("utf-8") of a string of hex digits
encode(s) ==
    [i \in 1..Len(s) |-> IF HexVal(s[i]) < 10 THEN 48 + HexVal(s[i])
                         ELSE 87 + HexVal(s[i])]

\* a session token with its expiry claim, and jwt.decode(token, verify=False)
Jwt(exp) == [t |-> "jwt", exp |-> exp]

jwt_decode(token) == [exp |-> token.exp]

\* VeilClient._authenticate(force), with get_session_challenge: the server
\* answers with the challenge server.uid and the session data server.session
authenticate(c, force, server) ==
    IF ~force /\ Truthy(c._session_info) THEN [o |-> c, r |-> None, requests |-> <<>>]
    ELSE One({
        IF IsRaised(signed)
        THEN [t |-> "raise", e |-> signed.e, o |-> challenged,
              requests |-> <<[method |-> "POST", url |-> "session_challenges"]>>]
        ELSE [o |-> [challenged EXCEPT !._session_info =
                        IF Truthy(server.session)
                        THEN [t |-> "dict",
                              token |-> server.session.token,
                              exp |-> jwt_decode(server.session.token).exp,
                              challenge |-> server.uid]
                        ELSE server.session],
              r |-> None,
              requests |-> <<[method |-> "POST", url |-> "session_challenges"],
                             [method |-> "POST", url |-> "sessions",
                              challengeUid |-> server.uid,
                              signature |-> signed.r]>>] :
        challenged \in {[c EXCEPT !._session_challenge =
                            [t |-> "dict", uid |-> server.uid]]},
        signed \in {sign_hash(c, Bytes(encode(server.uid.s)))}})

\* VeilClient.session_info, read at time now, renewing the session only
\* once it has expired
session_info_without_margin(c, now, server) ==
    IF (IF Truthy(c._session_info) THEN c._session_info.exp - now < 0
        ELSE c._session_info = None)
    THEN One({IF IsRaised(a) THEN a
              ELSE [o |-> a.o, r |-> a.o._session_info, requests |-> a.requests] :
              a \in {authenticate(c, TRUE, server)}})
    ELSE [o |-> c, r |-> c._session_info, requests |-> <<>>]

\* VeilClient.session_info, read at time now
session_info(c, now, server) ==
    IF (IF Truthy(c._session_info) THEN c._session_info.exp - now < SESSION_MARGIN
        ELSE c._session_info = None)
    THEN One({IF IsRaised(a) THEN a
              ELSE [o |-> a.o, r |-> a.o._session_info, requests |-> a.requests] :
              a \in {authenticate(c, TRUE, server)}})
    ELSE [o |-> c, r |-> c._session_info, requests |-> <<>>]

\* VeilClient.__init__(network_id, web3_rpc_url, private_key)
VeilClient_init(key) ==
    One({[t |-> "VeilClient", _private_key |-> w._private_key, _account |-> w._account,
          _account_address |-> w._account_address, _session_challenge |-> None,
          _session_info |-> None, _markets |-> <<>>] :
         w \in {Web3Client_init(key)}})

MARKETS == [i \in 1..3 |-> MarketJson(<<"m", DigitChar(i)>>)]

\* the servers: what they hold, the total they report, the page from which
\* they answer nothing, whether every page serves all records again
Server(records, total, absent_from, endless) ==
    [records |-> records, total |-> total, absent_from |-> absent_from,
     endless |-> endless]

SERVERS ==
    {Server(<<>>, IntV(0), MaxPages + 1, FALSE),
     Server(MARKETS, IntV(3), MaxPages + 1, FALSE),
     Server(MARKETS, Str(<<"3">>), MaxPages + 1, FALSE),
     Server(MARKETS, IntV(5), MaxPages + 1, FALSE),
     Server(MARKETS, IntV(2), MaxPages + 1, FALSE),
     Server(MARKETS, IntV(3), 1, FALSE),
     Server(SubSeq(MARKETS, 1, 2), IntV(3), MaxPages + 1, TRUE)}

PAGE_INPUTS == {None, IntV(0), IntV(1), IntV(-1)}

PER_PAGE_INPUTS == {None, IntV(1), IntV(2)}

STATUS_INPUTS ==
    {None, Str(<<"o", "p", "e", "n">>), MarketStatus(Str(<<"o", "p", "e", "n">>))}

SESSION_NOW_INPUTS == {1000, 1020, 1021}

AUTH_SERVERS ==
    {[uid |-> Str(<<"c", "1">>), session |-> data] :
        data \in {None} \cup {[t |-> "dict", token |-> Jwt(exp)] : exp \in {1010, 1050, 1100}}}

VeilReturned(result) ==
    /\ client' = IF "o" \in DOMAIN result THEN result.o ELSE client
    /\ ret' = IF IsRaised(result) THEN Raised(result.e)
              ELSE IF "t" \in DOMAIN result /\ result.t = "looping"
              THEN StillLooping(<<>>)
              ELSE result.r
    /\ http' = result.requests
    /\ UNCHANGED <<order, twin, twinret, wei>>

RequestPaginated ==
    \E server \in SERVERS, page \in PAGE_INPUTS, per_page \in PER_PAGE_INPUTS,
       raw_json \in BOOLEAN :
        /\ Called("_request_paginated",
                  [server |-> server, page |-> page, per_page |-> per_page,
                   raw_json |-> raw_json])
        /\ VeilReturned(request_paginated(server, page, per_page, raw_json))

GetMarkets ==
    \E server \in SERVERS, status \in STATUS_INPUTS, page \in {None, IntV(0)},
       force_refresh \in BOOLEAN, raw_json \in BOOLEAN :
        /\ Called("get_markets",
                  [server |-> server, channel |-> None, status |-> status,
                   page |-> page, per_page |-> None,
                   force_refresh |-> force_refresh, raw_json |-> raw_json])
        /\ VeilReturned(get_markets(client, server, None, status, page, None,
                                    force_refresh, raw_json))

ReadSessionInfo ==
    \E now \in SESSION_NOW_INPUTS, server \in AUTH_SERVERS :
        /\ Called("session_info", [now |-> now, server |-> server])
        /\ VeilReturned(session_info(client, now, server))

\* dict_to_zx_order(signed_order_dict): ZxSignedOrder(**signed_order_dict)
dict_to_zx_order(signed_order_dict, now) == ZxSignedOrder_init(signed_order_dict, now)

\* ZxWeb3Client.sign_hash_zx_compat(hash_hex): the 0x signature of hash_hex
\* made with the key of the client, symbolically (its layout is that of
\* get_zx_signature_from_ec_signature)
sign_hash_zx_compat(c, hash_hex) ==
    IF ~Truthy(c._private_key) THEN Raised("Exception")
    ELSE IF hash_hex = None THEN Raised("TypeError")
    ELSE [t |-> "zx_signature", of |-> hash_hex, private_key |-> c._private_key]

\* get_veil_zx_order_from_signed_order(signed_order)
get_veil_zx_order_from_signed_order(o) ==
    [maker_address |-> o.maker_address_, taker_address |-> o.taker_address_,
     fee_recipient_address |-> o.fee_recipient_address_,
     sender_address |-> o.sender_address_,
     exchange_address |-> o.exchange_address_,
     maker_asset_amount |-> o.maker_asset_amount_,
     taker_asset_amount |-> o.taker_asset_amount_,
     maker_fee |-> o.maker_fee_, taker_fee |-> o.taker_fee_, salt |-> o.salt_,
     expiration_time_seconds |-> o.expiration_time_seconds_,
     maker_asset_data |-> o.maker_asset_data_,
     taker_asset_data |-> o.taker_asset_data_,
     signature |-> o.signature_]

\* VeilClient.post_order(market, token_type, side, amount, price) for an
\* amount and a price in range: the server answers the quote request with
\* the order zero_ex_order; both requests read session_info at time now.
\* The result holds the client and the order after the call.
post_order(c, zero_ex_order, now, server) ==
    One({
        IF IsRaised(s1) THEN s1
        ELSE IF ~Truthy(s1.r)
        THEN [t |-> "raise", e |-> "TypeError", o |-> s1.o, requests |-> s1.requests]
        ELSE One({
            IF IsRaised(zx_order)
            THEN [t |-> "raise", e |-> zx_order.e, o |-> s1.o,
                  requests |-> s1.requests \o <<[method |-> "POST", url |-> "quotes"]>>]
            ELSE One({One({
                IF IsRaised(signature)
                THEN [t |-> "raise", e |-> signature.e, o |-> s1.o,
                      requests |-> s1.requests
                                   \o <<[method |-> "POST", url |-> "quotes"]>>]
                ELSE One({
                    IF IsRaised(s2) \/ ~Truthy(s2.r)
                    THEN [t |-> "raise",
                          e |-> IF IsRaised(s2) THEN s2.e ELSE "TypeError",
                          o |-> IF IsRaised(s2) THEN s2.o ELSE s1.o,
                          order |-> signed,
                          requests |-> s1.requests
                                       \o <<[method |-> "POST", url |-> "quotes"]>>
                                       \o s2.requests]
                    ELSE [o |-> s2.o,
                          order |-> signed,
                          r |-> [t |-> "Order", zero_ex_order |-> signed],
                          requests |->
                              s1.requests
                              \o <<[method |-> "POST", url |-> "quotes"]>>
                              \o s2.requests
                              \o <<[method |-> "POST", url |-> "orders",
                                    zero_ex_order |->
                                        get_veil_zx_order_from_signed_order(signed)]>>] :
                    signed \in {[h.o EXCEPT !.signature_ = signature]},
                    s2 \in {session_info(s1.o, now, server)}}) :
                signature \in {sign_hash_zx_compat(s1.o, h.v)}}) :
                h \in {hash(zx_order)}}) :
            zx_order \in {dict_to_zx_order(zero_ex_order, now)}}) :
        s1 \in {session_info(c, now, server)}})

QUOTE_ORDER_INPUTS ==
    {FullKwargs,
     With(FullKwargs, "hash", HASH_INPUT),
     With(FullKwargs, "salt", IntV(8)),
     With(With(FullKwargs, "salt", IntV(8)), "hash", HASH_INPUT),
     NoKwargs,
     With(NoKwargs, "maker_fee", IntV(-1))}

VeilPosted(result) ==
    /\ client' = IF "o" \in DOMAIN result THEN result.o ELSE client
    /\ ret' = IF IsRaised(result) THEN Raised(result.e) ELSE result.r
    /\ http' = result.requests
    /\ UNCHANGED <<twin, twinret, wei>>

PostOrder ==
    \E zero_ex_order \in QUOTE_ORDER_INPUTS, now \in {1000, 1020},
       server \in AUTH_SERVERS :
        /\ Called("post_order",
                  [zero_ex_order |-> zero_ex_order, now |-> now, server |-> server])
        /\ \E result \in {post_order(client, zero_ex_order, now, server)} :
              /\ order' = IF "order" \in DOMAIN result THEN result.order ELSE order
              /\ VeilPosted(result)

(***************************************************************************)
(* Properties.                                                             *)
(***************************************************************************)
ADDRESS_FIELDS ==
    {"maker_address_", "taker_address_", "fee_recipient_address_",
     "sender_address_", "exchange_address_"}

ADDRESS_SETTERS ==
    {"maker_address", "taker_address", "fee_recipient_address",
     "sender_address", "exchange_address"}

HASH_FIELD_SETTERS ==
    ADDRESS_SETTERS \cup
    {"maker_asset_amount", "taker_asset_amount", "maker_fee", "taker_fee",
     "salt", "expiration_time_seconds", "maker_asset_data", "taker_asset_data"}

CurrentDigest == get_order_hash(to_json(order, FALSE, TRUE, "None"))

\* C1: when the cached hash is the digest of the order's fields, a successful
\* assignment through the setter of a hash-relevant field clears the cache.
C1_SetterClearsCachedHash ==
    [][(/\ order.hash_ # None
        /\ order.hash_ = CurrentDigest
        /\ op' \in HASH_FIELD_SETTERS
        /\ ret' = None)
       => order'.hash_ = None]_vars

\* C2: right after a successful construction, whatever the keyword
\* arguments (a hash argument included), no hash is cached.
C2_ConstructedUnhashed ==
    (op = "__init__" /\ ret = None) => order.hash_ = None

\* C3: in a state reached through the signature setter, a stored signature
\* implies a cached hash.
C3_SignatureImpliesHash ==
    (op = "signature" /\ ret = None /\ order.signature_ # None)
        => order.hash_ # None

IsCanonicalAddress(a) ==
    /\ a.t = "str"
    /\ Len(a.s) = 42
    /\ a.s[1] = "0"
    /\ a.s[2] = "x"
    /\ \A i \in 3..42 : IsLowerHexChar(a.s[i])

\* an input that denotes 20 bytes: 40 hex digits in either case with an
\* optional 0x/0X prefix, or 20 bytes
ConvertibleAddress(v) ==
    \/ /\ v.t = "str"
       /\ LET body == IF startswith(lower(v.s), <<"0", "x">>)
                      THEN SubSeq(v.s, 3, Len(v.s)) ELSE v.s
          IN  Len(body) = 40 /\ \A i \in 1..40 : IsHexChar(body[i])
    \/ v.t = "bytes" /\ Len(v.b) = 20

\* C4: every address field that is set holds "0x" and 40 lowercase hex
\* digits, and an address setter rejects what cannot be converted to that.
C4_AddressesCanonical ==
    /\ \A f \in ADDRESS_FIELDS : order[f] # None => IsCanonicalAddress(order[f])
    /\ (op \in ADDRESS_SETTERS /\ arg # None /\ ~ConvertibleAddress(arg))
           => IsRaised(ret)

MakerAmount == maker_asset_amount(order).n

TakerAmount == taker_asset_amount(order).n

MAX_PRICE == DecV(FALSE, Repeat(9, 32), 0)

ZERO_PRICE == DecV(FALSE, <<0>>, 0)

\* C5 as stated: maker amount 0 and taker amount > 0 give the maximal ask
\* price; taker amount 0 and maker amount > 0 give bid price 0.
C5_SentinelPricesAsStated ==
    /\ (MakerAmount = 0 /\ TakerAmount > 0) => DecEq(ask_price(order), MAX_PRICE)
    /\ (TakerAmount = 0 /\ MakerAmount > 0) => DecEq(bid_price(order), ZERO_PRICE)

\* C5 as amended: taker amount 0 and maker amount > 0 give the maximal ask
\* price and bid price 0; maker amount 0 and taker amount > 0 give ask price
\* 0 and bid price 0.
C5_SentinelPrices ==
    /\ (TakerAmount = 0 /\ MakerAmount > 0)
           => /\ DecEq(ask_price(order), MAX_PRICE)
              /\ DecEq(bid_price(order), ZERO_PRICE)
    /\ (MakerAmount = 0 /\ TakerAmount > 0)
           => /\ DecEq(ask_price(order), ZERO_PRICE)
              /\ DecEq(bid_price(order), ZERO_PRICE)

\* both amounts were assigned through their setters, the taker amount last,
\* and the ask price has no divisor
C5_Witness ==
    /\ nops >= 2
    /\ op = "taker_asset_amount"
    /\ ret = None
    /\ TakerAmount = 0
    /\ MakerAmount > 0

\* C6: the stored prices are those of the current amounts (the quotient to
\* 18 decimals in a field of 32, or the sentinel when the divisor is zero),
\* an exact quotient is stored exactly, and an amount setter given a
\* non-negative integer does not raise.
C6_PricesFollowAmounts ==
    /\ order.bid_price_ =
          IF MakerAmount # 0
          THEN Str(FormatF0(DecimalDiv(TakerAmount, MakerAmount), 32, 18))
          ELSE Str(Repeat("0", 32))
    /\ order.ask_price_ =
          IF TakerAmount # 0
          THEN Str(FormatF0(DecimalDiv(MakerAmount, TakerAmount), 32, 18))
          ELSE Str(Repeat("9", 32))
    /\ (MakerAmount # 0 /\ TakerAmount % MakerAmount = 0)
           => DecEq(bid_price(order), DecV(FALSE, Digits(TakerAmount \div MakerAmount), 0))
    /\ (TakerAmount # 0 /\ MakerAmount % TakerAmount = 0)
           => DecEq(ask_price(order), DecV(FALSE, Digits(MakerAmount \div TakerAmount), 0))
    /\ (op \in {"maker_asset_amount", "taker_asset_amount"}
        /\ ~IsRaised(assert_like_integer(arg)))
           => ret = None

\* the maker amount was set to zero while the taker amount is not zero
C6_Witness ==
    /\ nops >= 2
    /\ op = "maker_asset_amount"
    /\ arg = IntV(0)
    /\ ret = None
    /\ TakerAmount > 0
    /\ order.bid_price_ = Str(Repeat("0", 32))

\* C7: from_wei(to_wei(x, d), d) = x for 0 <= d <= 18 and non-negative x
\* with at most d fractional digits.
C7_WeiRoundTrip ==
    (wei.call = "from_wei" /\ wei.x # None)
        => /\ ~IsRaised(wei.result)
           /\ DecEq(wei.result, Decimal(wei.x))

\* C8: from_wei(n, d) = n / 10^d for n >= 0 and 0 <= d <= 18.
C8_FromWeiExact ==
    (wei.call = "from_wei")
        => /\ ~IsRaised(wei.result)
           /\ DecEq(wei.result, DecV(FALSE, wei.arg.ds, wei.decimals))

\* C9: an order and the order given the same addresses in lowercase return
\* the same hash.
C9_HashCaseInvariant ==
    (op = "hash") => ret = twinret

LeftPad32(b) == [i \in 1..32 |-> IF i <= 32 - Len(b) THEN 0 ELSE b[i - (32 - Len(b))]]

\* 32 bytes, big-endian, of n < 2^32
Be256(n) == [i \in 1..32 |-> IF i <= 28 THEN 0 ELSE (n \div (256 ^ (32 - i))) % 256]

\* the bytes a stored "0x" hex string denotes
StoredBytes(v) ==
    [i \in 1..((Len(v.s) - 2) \div 2) |->
        16 * HexVal(v.s[2 * i + 1]) + HexVal(v.s[2 * i + 2])]

StoredUint(v) == IF v.t = "int" THEN v.n ELSE IntOfStr(v.s).n

ClaimedDigest(o) ==
    Str(<<"0", "x">> \o hexlify(keccak(
        <<25, 1>>
        \o keccak(EIP712_DOMAIN_STRUCT_HEADER
                  \o LeftPad32(StoredBytes(o.exchange_address_)))
        \o keccak(EIP712_ORDER_SCHEMA_HASH
                  \o LeftPad32(StoredBytes(o.maker_address_))
                  \o LeftPad32(StoredBytes(o.taker_address_))
                  \o LeftPad32(StoredBytes(o.fee_recipient_address_))
                  \o LeftPad32(StoredBytes(o.sender_address_))
                  \o Be256(StoredUint(o.maker_asset_amount_))
                  \o Be256(StoredUint(o.taker_asset_amount_))
                  \o Be256(StoredUint(o.maker_fee_))
                  \o Be256(StoredUint(o.taker_fee_))
                  \o Be256(StoredUint(o.expiration_time_seconds_))
                  \o Be256(StoredUint(o.salt_))
                  \o keccak(StoredBytes(o.maker_asset_data_))
                  \o keccak(StoredBytes(o.taker_asset_data_))))))

\* C10: the hash that update_hash caches is "0x" and the hex of
\* Keccak(0x1901, Keccak(domain header, padded exchange address),
\* Keccak(order schema hash, the four padded addresses, the six 32-byte
\* big-endian integers, Keccak of each asset data)), in that order.
C10_HashPreimage ==
    (op = "update_hash" /\ ret = None) => order.hash_ = ClaimedDigest(order)

\* update_hash succeeded on an order whose fields are not the defaults
C10_Witness ==
    /\ op = "update_hash"
    /\ ret = None
    /\ order.maker_asset_amount_ = Str(<<"3", "0", "0">>)
    /\ order.salt_ = Str(<<"7">>)
    /\ order.expiration_time_seconds_ = IntV(70)
    /\ order.maker_address_ # NULL_ADDRESS
    /\ order.hash_ # None

\* the 64 hex digits of a 256-bit unsigned integer, computed digit by digit
Nibbles64(x) ==
    IF x.t = "hexint"
    THEN Repeat("0", 64 - Len(x.h)) \o x.h
    ELSE [i \in 1..64 |->
            IF 64 - i >= 8 THEN "0"
            ELSE HEXDIGITS[((x.n \div (16 ^ (64 - i))) % 16) + 1]]

\* C11: the 0x signature of an EC signature is hex(v), then r as exactly 64
\* lowercase hex digits (32 bytes, left-padded with zeros), then s likewise,
\* then the two characters "03".
C11_ZxSignatureLayout ==
    op = "get_zx_signature_from_ec_signature" =>
        /\ IsStr(ret)
        /\ \E hv \in {hex_builtin(arg.v).s} :
              /\ Len(ret.s) = Len(hv) + 64 + 64 + 2
              /\ SubSeq(ret.s, 1, Len(hv)) = hv
              /\ SubSeq(ret.s, Len(hv) + 1, Len(hv) + 64) = Nibbles64(arg.r)
              /\ SubSeq(ret.s, Len(hv) + 65, Len(hv) + 128) = Nibbles64(arg.s)
              /\ SubSeq(ret.s, Len(hv) + 129, Len(hv) + 130) = <<"0", "3">>

\* a signature whose r fills the 32 bytes and whose s needed padding
C11_Witness ==
    /\ op = "get_zx_signature_from_ec_signature"
    /\ arg.r = HexInt(Repeat("f", 64))
    /\ arg.s = IntV(4660)
    /\ arg.v = IntV(27)
    /\ IsStr(ret)
    /\ SubSeq(ret.s, 1, 4) = <<"0", "x", "1", "b">>

SETTERS ==
    ADDRESS_SETTERS
    \cup {"maker_asset_amount", "taker_asset_amount", "maker_fee", "taker_fee",
          "salt", "expiration_time_seconds", "maker_asset_data",
          "taker_asset_data", "signature"}

\* C12: a setter that raises has assigned nothing: every stored field, both
\* derived prices, the cached hash and the signature are after the failed
\* call what they were before it.
C12_FailedSetterAssignsNothing ==
    [][(op' \in SETTERS /\ IsRaised(ret')) => order' = order]_vars

\* a negative amount, a fractional amount and a malformed address were
\* each rejected by a setter
C12_Witness ==
    /\ IsRaised(ret)
    /\ \/ op = "maker_asset_amount" /\ arg \in {IntV(-1), Str(<<"1", ".", "5">>)}
       \/ op \in ADDRESS_SETTERS /\ arg = Str(<<"0", "x">> \o Repeat("a", 39))

AMOUNT_FIELDS ==
    {"maker_asset_amount_", "taker_asset_amount_", "maker_fee_", "taker_fee_"}

AMOUNT_SETTERS ==
    {"maker_asset_amount", "taker_asset_amount", "maker_fee", "taker_fee"}

\* a non-empty string of decimal digits
IsNaturalString(x) ==
    IsStr(x) /\ Len(x.s) > 0 /\ \A i \in 1..Len(x.s) : IsDigitChar(x.s[i])

\* an int below zero, or a numeral with a minus sign or with a non-zero digit
\* after its decimal point
NegativeOrFractional(x) ==
    \/ x.t = "int" /\ x.n < 0
    \/ /\ x.t = "str"
       /\ \/ x.s[1] = "-"
          \/ \E i \in 1..Len(x.s) :
                /\ x.s[i] = "."
                /\ \E j \in (i + 1)..Len(x.s) : x.s[j] \notin {"0", "."}

\* C13: the maker_asset_amount, taker_asset_amount, maker_fee and taker_fee
\* setters raise for a negative value and for a value that is not
\* integer-like, and every stored economic amount is the decimal string of
\* a non-negative integer.
C13_AmountsAreNaturals ==
    /\ \A f \in AMOUNT_FIELDS : IsNaturalString(order[f])
    /\ (op \in AMOUNT_SETTERS /\ NegativeOrFractional(arg)) => IsRaised(ret)

\* a negative fee was rejected on an order that holds an amount of 3
C13_Witness ==
    /\ op = "maker_fee"
    /\ arg = IntV(-1)
    /\ IsRaised(ret)
    /\ order.maker_asset_amount_ = Str(<<"3">>)
    /\ order.maker_fee_ = Str(<<"0">>)

\* C14: when computing the order hash fails, the read of hash or the call of
\* update_hash that needed it raises, and the order is left as it was.
C14_HashFailureSurfaces ==
    [][(/\ op' \in {"hash", "update_hash"}
        /\ IsRaised(CurrentDigest)
        /\ op' = "hash" => order.hash_ = None)
       => (IsRaised(ret') /\ order' = order)]_vars

HASH_FIELDS ==
    ADDRESS_FIELDS \cup AMOUNT_FIELDS
    \cup {"salt_", "expiration_time_seconds_", "maker_asset_data_",
          "taker_asset_data_"}

\* C15: from_json is the inverse of storage-mode to_json and leaves the
\* order hashed: for an order with all 13 hash-relevant fields set,
\* from_json(order.to_json()) has the same 13 fields and signature and a
\* cached hash equal to get_order_hash of them; a schema validation that
\* rejects the document does so before any field of it is applied.
C15_FromJsonInvertsToJson ==
    op = "from_json" =>
        /\ twinret = Raised("ValidationError")
              => \E now \in NOW_INPUTS : twin = ZxSignedOrder_init(NoKwargs, now)
        /\ (/\ twinret # Raised("ValidationError")
            /\ arg.include_signature
            /\ arg.order_json = to_json(order, FALSE, TRUE, "None")
            /\ \A f \in HASH_FIELDS : order[f] # None)
              => /\ twinret = None
                 /\ \A f \in HASH_FIELDS \cup {"signature_"} : twin[f] = order[f]
                 /\ twin.hash_ = get_order_hash(to_json(twin, FALSE, TRUE, "None"))

ADDRESS_KEYS ==
    {"makerAddress", "takerAddress", "feeRecipientAddress", "senderAddress",
     "exchangeAddress"}

\* "0x" followed by lowercase hex digits only
IsLowercaseHexString(x) ==
    /\ IsStr(x)
    /\ startswith(x.s, <<"0", "x">>)
    /\ \A i \in 3..Len(x.s) : IsLowerHexChar(x.s[i])

\* C16: every address to_json emits, exchangeAddress included, is a
\* lowercase hex string in storage mode and a checksummed hex string in
\* on-chain-call mode.
C16_AddressesByMode ==
    (op = "to_json" /\ ~IsRaised(ret)) =>
        \A k \in ADDRESS_KEYS \cap DOMAIN ret :
            IF arg.for_web3 THEN ret[k].t = "checksum_str"
            ELSE IsLowercaseHexString(ret[k])

NUMERIC_KEYS ==
    {"makerAssetAmount", "takerAssetAmount", "makerFee", "takerFee", "salt",
     "expirationTimeSeconds"}

\* the stored field a numeric key is emitted from
NumericField(o, k) ==
    CASE k = "makerAssetAmount" -> o.maker_asset_amount_
      [] k = "takerAssetAmount" -> o.taker_asset_amount_
      [] k = "makerFee" -> o.maker_fee_
      [] k = "takerFee" -> o.taker_fee_
      [] k = "salt" -> o.salt_
      [] k = "expirationTimeSeconds" -> o.expiration_time_seconds_

\* C17: to_json emits the amounts, the fees, the salt and the expiration as
\* decimal-integer strings in storage mode and as native unsigned integers
\* in on-chain-call mode, with the same numeric value in both.
C17_NumbersByMode ==
    (op = "to_json" /\ ~IsRaised(ret)) =>
        \A k \in NUMERIC_KEYS :
            /\ IF arg.for_web3 THEN ret[k].t = "int" /\ ret[k].n >= 0
               ELSE IsNaturalString(ret[k])
            /\ int(ret[k]) = int(NumericField(order, k))

\* C18: the dict to_json returns has the twelve order fields, "hash" iff
\* include_hash, "signature" iff include_signature and "exchangeAddress"
\* iff include_exchange_address, which left unspecified means false in
\* on-chain-call mode and true in storage mode.
C18_KeysByFlags ==
    (op = "to_json" /\ ~IsRaised(ret)) =>
        DOMAIN ret =
            ORDER_KEYS
            \cup (IF arg.include_hash THEN {"hash"} ELSE {})
            \cup (IF arg.include_signature THEN {"signature"} ELSE {})
            \cup (IF \/ arg.include_exchange_address = "True"
                     \/ arg.include_exchange_address = "None" /\ ~arg.for_web3
                  THEN {"exchangeAddress"} ELSE {})

\* an on-chain-call dict with the hash, made with include_exchange_address
\* left unspecified
C18_Witness ==
    /\ op = "to_json"
    /\ arg.for_web3
    /\ arg.include_exchange_address = "None"
    /\ arg.include_hash
    /\ ~arg.include_signature
    /\ ~IsRaised(ret)
    /\ "hash" \in DOMAIN ret
    /\ "exchangeAddress" \notin DOMAIN ret

\* the distance of two integers
Distance(a, b) == IF a >= b THEN a - b ELSE b - a

\* C19: an order constructed without an expiration has
\* expiration_time_seconds within 1 second of its creation time + 60 s, and
\* one constructed with an expiration (any non-negative integer, 0
\* included) stores exactly that value.
C19_ExpirationOfNewOrder ==
    (op = "__init__" /\ ret = None) =>
        IF arg["expiration_time_seconds"] = None
        THEN /\ order.expiration_time_seconds_.t = "int"
             /\ Distance(order.expiration_time_seconds_.n * 1000,
                         order._created_at_msecs_.n + 60 * 1000) <= 1000
        ELSE order.expiration_time_seconds_ = arg["expiration_time_seconds"]

\* C20: the public created_at_msecs of an order is the timestamp of its
\* construction, the value the constructor derived the default expiry
\* from.
C20_CreatedAtIsConstructionTime ==
    op = "created_at_msecs" =>
        /\ ret.t = "int"
        /\ ret = order._created_at_msecs_

\* two property values are the same number
SameNumber(x, y) == ~IsRaised(x) /\ ~IsRaised(y) /\ DecEq(x, y)

\* C21: sort_price is readable in every state of the order, and after
\* set_bid_as_sort_price (set_ask_as_sort_price) it equals bid_price
\* (ask_price) also once a later operation has changed an amount.
C21_SortPriceIsAlias ==
    [][/\ ~IsRaised(sort_price(order'))
       /\ (op = "set_bid_as_sort_price"
           /\ op' \notin {"set_ask_as_sort_price", "__init__"})
             => SameNumber(sort_price(order'), bid_price(order'))
       /\ (op = "set_ask_as_sort_price"
           /\ op' \notin {"set_bid_as_sort_price", "__init__"})
             => SameNumber(sort_price(order'), ask_price(order'))]_vars

\* C28: every setter of a hash-relevant field leaves the stored signature
\* as it was, whether the setter succeeds or raises.
C28_SettersKeepSignature ==
    [][op' \in HASH_FIELD_SETTERS => order'.signature_ = order.signature_]_vars

\* the salt was changed on an order that carries a signature
C28_Witness ==
    /\ op = "salt"
    /\ ret = None
    /\ order.salt_ = Str(<<"3">>)
    /\ order.signature_ = Str(<<"0", "x", "1", "b", "0", "3">>)

TICK_CONVERSIONS ==
    {"veil_price_to_eth", "eth_to_veil_price", "veil_shares_to_amount",
     "amount_to_veil_shares"}

\* the conversion called name, applied to value with num_ticks
TickConversion(name, value, num_ticks) ==
    CASE name = "veil_price_to_eth" -> veil_price_to_eth(value, num_ticks)
      [] name = "eth_to_veil_price" -> eth_to_veil_price(value, num_ticks)
      [] name = "veil_shares_to_amount" -> veil_shares_to_amount(value, num_ticks)
      [] name = "amount_to_veil_shares" -> amount_to_veil_shares(value, num_ticks)

\* C22: each of the four tick conversions called with num_ticks None gives
\* what it gives with num_ticks 10000.
C22_NoneIsTenThousand ==
    (op \in TICK_CONVERSIONS /\ arg.num_ticks = None)
        => ret = TickConversion(op, arg.value, IntV(BINARY_NUM_TICKS))

\* the integer nearest to digits / (n * 10^k), ties to even, as a string
NearestInteger(digits, n, k) ==
    One({[i \in 1..Len(r) |-> DigitChar(r[i])] :
         r \in {One({StripLeadingZeros(
                         PadLeft(RoundHalfEven(SubSeq(q, 1, Len(q) - (k + 1)),
                                               SubSeq(q, Len(q) - k, Len(q)),
                                               qr.r # 0), 1)) :
                     q \in {PadLeft(qr.q, k + 2)}}) :
                qr \in {DivDigits(digits \o <<0>>, n, 0)}}})

\* the exact value that amount_to_veil_shares / eth_to_veil_price round:
\* amount * 10^18 / num_ticks, and eth_price * num_ticks
ExactShares(d, n) == NearestInteger(d.ds \o Repeat(0, TEN_18_EXP), n, d.scale)

ExactPrice(d, n) == NearestInteger(MulDigits(d.ds, n, 0), 1, d.scale)

\* C23: amount_to_veil_shares and eth_to_veil_price return the integer
\* nearest to the exact value, ties to even, rounded once.
C23_NearestIntegerOnce ==
    /\ (op = "amount_to_veil_shares" /\ ~IsRaised(ret))
          => ret = Str(ExactShares(Decimal(arg.value), arg.num_ticks.n))
    /\ (op = "eth_to_veil_price" /\ ~IsRaised(ret))
          => ret = Str(ExactPrice(Decimal(arg.value), arg.num_ticks.n))

\* C24: right after an assignment private_key = k the client's account and
\* account_address are those of k, the key that sign_hash signs with.
C24_KeyAndAccountBelongTogether ==
    (op = "private_key.setter" /\ ~IsRaised(ret) /\ Truthy(HexBytes(arg)))
        => /\ account(client).r = privateKeyToAccount(HexBytes(arg))
           /\ account_address(client).r = privateKeyToAccount(HexBytes(arg)).address
           /\ sign_hash(client, Str(<<"0", "x", "a", "b">>)).r.private_key = HexBytes(arg)

\* a session is stored and is due for renewal at time now
SessionDue(c, now) ==
    \/ c._session_info = None
    \/ c._session_info.exp < now + SESSION_MARGIN

\* a read of session_info authenticates exactly when the session is due,
\* and otherwise returns the stored session with no request
SessionReadDecision ==
    /\ (http' # <<>>) <=> SessionDue(client, arg'.now)
    /\ ~SessionDue(client, arg'.now)
          => (ret' = client._session_info /\ http' = <<>> /\ client' = client)

\* C25 as stated: a read of session_info authenticates exactly when no
\* session is stored or the stored one expires in less than 30 seconds, and
\* the session it returns is never within 30 seconds of its expiry.
C25_SessionNeverNearExpiry ==
    [][op' = "session_info"
          => /\ SessionReadDecision
             /\ ret'.t = "dict" => ret'.exp - arg'.now >= SESSION_MARGIN]_vars

\* C25, amended: a read of session_info authenticates exactly when no
\* session is stored or the stored one expires in less than 30 seconds; a
\* session returned without authenticating is never within 30 seconds of
\* its expiry.
C25_StoredSessionNeverNearExpiry ==
    [][op' = "session_info"
          => /\ SessionReadDecision
             /\ (ret'.t = "dict" /\ http' = <<>>)
                   => ret'.exp - arg'.now >= SESSION_MARGIN]_vars

C25_Witness ==
    /\ op = "session_info"
    /\ http = <<>>
    /\ ret.t = "dict"
    /\ ret.exp - arg.now = SESSION_MARGIN

\* C26: called with a page number, _request_paginated issues one request,
\* for that page, and returns only the data of that page, with raw_json
\* TRUE as with raw_json FALSE.
C26_OnePageOneRequest ==
    (op = "_request_paginated" /\ arg.page # None /\ arg.page.n >= 0 /\ ret.t = "list")
        => /\ Len(http) = 1
           /\ http[1].page = arg.page.n
           /\ \E p \in {ServerPage(arg.server, arg.page.n, http[1].per_page)} :
                 ret.items = IF p = None \/ p.data.results = <<>> THEN <<>>
                             ELSE IF arg.raw_json THEN <<p.data>>
                             ELSE p.data.results

\* C27: a get_markets call that repeats the channel, status, page and
\* per_page of the successful call before it, both with raw_json FALSE and
\* the second with force_refresh FALSE, returns the list of the first with
\* no request, whatever the form of status; a call with raw_json TRUE
\* leaves the cache as it is and takes its result from the server.
C27_RepeatedQueryIsCached ==
    [][op' = "get_markets"
          => /\ (/\ op = "get_markets"
                 /\ ret.t = "list"
                 /\ ~arg.raw_json
                 /\ ~arg'.raw_json
                 /\ ~arg'.force_refresh
                 /\ arg'.status = arg.status
                 /\ arg'.page = arg.page)
                   => (http' = <<>> /\ ret' = ret)
             /\ arg'.raw_json
                   => (client'._markets = client._markets /\ http' # <<>>)]_vars

RECURSIVE Accumulated(_, _, _)
\* the results of the pages 0 .. k - 1 of the server, one after the other
Accumulated(server, per_page, k) ==
    IF k = 0 THEN <<>>
    ELSE Accumulated(server, per_page, k - 1)
         \o (IF ServerPage(server, k - 1, per_page) = None THEN <<>>
             ELSE ServerPage(server, k - 1, per_page).data.results)

\* the loop ends with page k: no answer, no results, or the total reached
EndsAt(server, per_page, k) ==
    \/ ServerPage(server, k, per_page) = None
    \/ ServerPage(server, k, per_page).data.results = <<>>
    \/ Len(Accumulated(server, per_page, k + 1)) = int(server.total).n

\* a server that holds its records and reports their number
Consistent(server) ==
    /\ ~server.endless
    /\ server.absent_from > MaxPages
    /\ int(server.total).n = Len(server.records)

\* C29: with page None and raw_json FALSE, _request_paginated asks for the
\* pages 0, 1, 2, ... in order, ends with the first page that has no
\* answer, no results or completes the total, and returns the results of
\* the pages it fetched in order; with a server that holds N records and
\* reports total N it returns and gives the N records once each.
C29_PagesInOrderUntilComplete ==
    (op = "_request_paginated" /\ arg.page = None /\ ~arg.raw_json)
        => \E pp \in {IF arg.per_page = None THEN DEFAULT_PER_PAGE ELSE arg.per_page.n} :
              /\ \A i \in 1..Len(http) : http[i].page = i - 1 /\ http[i].per_page = pp
              /\ ret.t = "list"
                    => /\ Len(http) >= 1
                       /\ EndsAt(arg.server, pp, Len(http) - 1)
                       /\ \A k \in 0..(Len(http) - 2) : ~EndsAt(arg.server, pp, k)
                       /\ ret.items = Accumulated(arg.server, pp, Len(http))
              /\ Consistent(arg.server)
                    => (ret.t = "list" /\ ret.items = arg.server.records)

C29_Witness ==
    /\ op = "_request_paginated"
    /\ arg.page = None
    /\ ~arg.raw_json
    /\ Consistent(arg.server)
    /\ Len(http) = 3
    /\ ret = ListV(MARKETS)

\* C30: the signature that post_order attaches to the quoted order is for
\* the digest of the 13 fields of the order that is posted, also when the
\* quoted order comes with a 'hash' entry of its own.
C30_SignsDigestOfPostedOrder ==
    (op = "post_order" /\ ~IsRaised(ret))
        => /\ order.signature_.of = get_order_hash(to_json(order, FALSE, TRUE, "None"))
           /\ ret.zero_ex_order = order
           /\ http[Len(http)].zero_ex_order.signature = order.signature_

Init ==
    /\ \E now \in NOW_INPUTS, kw \in {NoKwargs, AssetKwargs} :
          /\ order = ZxSignedOrder_init(kw, now)
          /\ twin = ZxSignedOrder_init(kw, now)
          /\ arg = kw
    /\ op = "__init__"
    /\ ret = None
    /\ twinret = None
    /\ nops = 0
    /\ client = None
    /\ http = <<>>
    /\ wei = WeiIdle

Next ==
    \/ Construct
    \/ SetMakerAddress
    \/ SetTakerAddress
    \/ SetFeeRecipientAddress
    \/ SetSenderAddress
    \/ SetExchangeAddress
    \/ SetMakerAssetAmount
    \/ SetTakerAssetAmount
    \/ SetMakerFee
    \/ SetTakerFee
    \/ SetSalt
    \/ SetExpirationTimeSeconds
    \/ SetMakerAssetData
    \/ SetTakerAssetData
    \/ SetSignature
    \/ UpdateHash
    \/ ReadHash
    \/ ReadCreatedAtMsecs
    \/ SetBidAsSortPrice
    \/ SetAskAsSortPrice

Spec == Init /\ [][Next]_vars

NextRecase ==
    \/ RecaseMakerAddress
    \/ RecaseTakerAddress
    \/ RecaseFeeRecipientAddress
    \/ RecaseSenderAddress
    \/ RecaseExchangeAddress
    \/ RecaseReadHash

SpecRecase == Init /\ [][NextRecase]_vars

NextWei ==
    \/ CallToWei
    \/ CallFromWeiOfResult
    \/ CallFromWei

InitWei ==
    /\ order = ZxSignedOrder_init(NoKwargs, 1000)
    /\ twin = ZxSignedOrder_init(NoKwargs, 1000)
    /\ arg = NoKwargs
    /\ op = "__init__"
    /\ ret = None
    /\ twinret = None
    /\ nops = 0
    /\ client = None
    /\ http = <<>>
    /\ wei \in {w \in WEI_AMOUNT_INPUTS : FractionDigits(w.arg) <= w.decimals}
               \cup WEI_INT_INPUTS

SpecWei == InitWei /\ [][NextWei]_vars

NextSig ==
    \/ GetZxSignatureFromEcSignature

SpecSig == Init /\ [][NextSig]_vars

NextJson ==
    \/ Construct
    \/ SetMakerAddress
    \/ SetExchangeAddress
    \/ SetTakerAssetAmount
    \/ SetExpirationTimeSeconds
    \/ SetMakerAssetData
    \/ SetSignature
    \/ ToJson
    \/ FromJson

SpecJson == Init /\ [][NextJson]_vars

NextTicks ==
    \/ VeilPriceToEth
    \/ EthToVeilPrice
    \/ VeilSharesToAmount
    \/ AmountToVeilShares

InitTicks ==
    /\ order = ZxSignedOrder_init(NoKwargs, 1000)
    /\ twin = ZxSignedOrder_init(NoKwargs, 1000)
    /\ arg = NoKwargs
    /\ op = "__init__"
    /\ ret = None
    /\ twinret = None
    /\ nops = 0
    /\ client = None
    /\ http = <<>>
    /\ wei = WeiIdle

SpecTicks == InitTicks /\ [][NextTicks]_vars

NextWeb3 ==
    \/ SetPrivateKey
    \/ ReadPrivateKey
    \/ ReadAccount
    \/ ReadAccountAddress
    \/ SetAccountAddress
    \/ SignHash

InitWeb3 ==
    /\ order = ZxSignedOrder_init(NoKwargs, 1000)
    /\ twin = ZxSignedOrder_init(NoKwargs, 1000)
    /\ arg \in {None, Str(<<>>), Str(<<"0", "x", "0", "1">>)}
    /\ op = "__init__"
    /\ ret = None
    /\ twinret = None
    /\ nops = 0
    /\ wei = WeiIdle
    /\ client = Web3Client_init(arg)
    /\ http = <<>>

SpecWeb3 == InitWeb3 /\ [][NextWeb3]_vars

NextVeil ==
    \/ RequestPaginated
    \/ GetMarkets
    \/ ReadSessionInfo

InitVeil ==
    /\ order = ZxSignedOrder_init(NoKwargs, 1000)
    /\ twin = ZxSignedOrder_init(NoKwargs, 1000)
    /\ arg \in {None, Str(<<"0", "x", "0", "1">>)}
    /\ op = "__init__"
    /\ ret = None
    /\ twinret = None
    /\ nops = 0
    /\ wei = WeiIdle
    /\ client = VeilClient_init(arg)
    /\ http = <<>>

SpecVeil == InitVeil /\ [][NextVeil]_vars

NextPost ==
    \/ PostOrder

SpecPost == InitVeil /\ [][NextPost]_vars

====
